---- MODULE Spec2Model ----
(***************************************************************************)
(* Room/session state machine of the BINGO coordination server.            *)
(*                                                                         *)
(* Spec     models src/server.js: users, rooms and drawnNumbers live in    *)
(*          process memory, the room names are mirrored in a MySQL table,  *)
(*          and the login and disconnect handlers are async functions that *)
(*          give up control at every await.                                *)
(* SpecSent is Spec in runs that also keep what each segment emits.        *)
(* SqlSpec  models src/unnamed/part_003, where the same state lives in     *)
(*          MySQL tables and every handler, and the periodic sweep, is     *)
(*          async.                                                         *)
(* MemSpec  models src/unnamed/part_001, where all state is in memory and  *)
(*          no handler awaits.                                             *)
(* LiteSpec models the sqlite3 server of src/unnamed/part_002, where the   *)
(*          state lives in sqlite tables, each handler has a catch and the *)
(*          periodic sweep is async.                                       *)
(* FairSpec is Spec in runs that resume every suspended handler and keep   *)
(*          the sweep running.                                             *)
(* GameSpec is src/server.js in one whole game, its events sent one after  *)
(*          the other.                                                     *)
(*                                                                         *)
(* A handler is cut at its awaits: one action per run-to-completion        *)
(* segment.  A database statement takes effect in the segment that issues  *)
(* it when that segment changes nothing else; the DELETE of the disconnect *)
(* handler, issued after the in-memory room was removed, is a step of its  *)
(* own.  Each statement may fail; every helper catches and logs.           *)
(* Table players of src/server.js is only written, never read, and is      *)
(* left out.  Two lists that the code builds in users' key order (player   *)
(* names) are kept as bags: no statement below depends on the order.       *)
(***************************************************************************)
EXTENDS Integers, Sequences, FiniteSets, Bags, TLC

\* ------------------------------------------------------------------ bounds
\* Socket ids; every id connects at most once, and ids are handed out in order.
Conns == {"c1", "c2", "c3"}
Earlier == { <<"c1", "c2">>, <<"c1", "c3">>, <<"c2", "c3">> }
\* Largest length of a room's drawn list that the model follows.
MaxDrawn == 2
\* Largest number of client events that change the state (an accepted login, a
\* successful draw, a player's line count, a connection close) in one run.
MaxEvents == 4
\* The same in a run that keeps what is emitted.
MaxSentEvents == 3
\* Largest number of client events (every kind) in one run of the SQL variant.
MaxSqlEvents == 3
\* drawNumber handlers of the SQL variant in flight at once.
MaxDraws == 2
\* Largest number of client events that change the state in one run of the
\* in-memory variant.
MaxMemEvents == 4
\* Largest number of client events (accepted logins, connection closes) in one
\* run of the sqlite3 variant.
MaxLiteEvents == 3
\* The client events of one whole game: two logins, a draw, two closes.
MaxGameEvents == 5
\* The runs of the periodic sweep of the SQL variant that may be in flight at once.
MaxSweeps == 2

\* ---------------------------------------------------------- program values
MinNumber == 1
MaxNumber == 36
MaxLine == 14
\* The last bucket of src/unnamed/part_001.
MemMaxLine == 6

\* JavaScript values that are not usable strings, as tokens.
Undefined == "<undefined>"
NonString == "<number>"
Blank == " "

IsString(v) == v \notin {Undefined, NonString}
Truthy(v) == v \notin {Undefined, ""}
\* The value as it is, where the code trims it.
Untrimmed(v) == v
Trim(v) == IF v = Blank THEN "" ELSE v

\* A number received in a payload: val + 1/2 when half, a string otherwise.
JsNum(v) == [type |-> "number", val |-> v, half |-> FALSE]
JsHalf(v) == [type |-> "number", val |-> v, half |-> TRUE]
JsStr(v) == [type |-> "string", val |-> v, half |-> FALSE]
\* x < n and x > n for an integer n.
JsLess(x, n) == x.val < n
JsGreater(x, n) == x.val > n \/ (x.val = n /\ x.half)

\* ------------------------------------------------------------------ inputs
RoomNames == {"r1", "r2"}
\* The passphrase of the deployment (spec.md, section 6); no source file reads one.
AdminSecret == "letmein"
\* What the client behind each socket types: its user name (two clients share
\* one) and the passphrase it knows.
UsernameOf == [c \in Conns |-> IF c = "c2" THEN "u2" ELSE "u1"]
SecretOf == [c \in Conns |-> IF c = "c3" THEN "wrong" ELSE AdminSecret]

\* adminSecret is optional in the payload: players send none.
ValidLogins(c) ==
    [username : {UsernameOf[c]}, room : RoomNames, isAdmin : {TRUE}, adminSecret : {SecretOf[c]}]
    \cup [username : {UsernameOf[c]}, room : RoomNames, isAdmin : {FALSE}, adminSecret : {Undefined}]
InvalidLogins ==
    { [username |-> u, room |-> r, isAdmin |-> FALSE, adminSecret |-> Undefined] :
        <<u, r>> \in { <<Undefined, "r1">>, <<"u1", "">>, <<"u1", NonString>>,
                       <<Blank, "r1">> } }
LoginInputs(c) == ValidLogins(c) \cup InvalidLogins

DrawInputs == { JsNum(0), JsNum(1), JsNum(37), JsHalf(1), JsStr(7) }
LineInputs == { 1, 15 }
MemLineInputs == { 1, 7 }

VARIABLES
    conn,           \* socket id -> "new" | "open" | "closed"
    joined,         \* socket id -> the socket.io rooms it has joined
    users,          \* src/server.js users: socket id -> session
    rooms,          \* src/server.js rooms: room name -> count
    drawnNumbers,   \* src/server.js drawnNumbers: room name -> list
    roomTimers,     \* src/server.js roomTimers: room names with a timer
    dbRooms,        \* rows of the MySQL table rooms (room_name)
    lpc,            \* login handler of a socket: the await it is suspended at
    ldata,          \* its payload
    lrows,          \* its roomData: whether getRoom returned a row
    dpc,            \* disconnect handler of a socket: the await it is suspended at
    droom,          \* its local room
    sent,           \* what the last segment emitted, in order
    record,         \* whether this run keeps what is emitted in sent
    net,            \* history: per room, its joins minus its leaves
    crashed,        \* an exception left a handler uncaught
    events,         \* history: client events that took budget so far
    budget,         \* the client events this run may take
    hrows,          \* SQL variant, login handler of a socket: the room rows it read
    drows,          \* SQL variant, disconnect handler of a socket: the room rows it read
    wpc,            \* SQL variant, a drawNumber handler: the await it is suspended at
    wdata,          \* its socket, payload number, room and whether the list was empty
    lwrote,         \* history, sqlite3 variant: the login handler of a socket changed a table
    sweeps          \* SQL variant, a run of the periodic sweep: its await, rooms to do, count read

vars == << conn, joined, users, rooms, drawnNumbers, roomTimers, dbRooms,
           lpc, ldata, lrows, dpc, droom, sent, record, net, crashed, events,
           budget, hrows, drows, wpc, wdata, lwrote, sweeps >>

Draws == 1..MaxDraws
Sweeps == 1..MaxSweeps
NoSweep == [pc |-> "idle", todo |-> << >>, count |-> 0]
NoDraw == [socket |-> "", number |-> [type |-> "none", val |-> 0, half |-> FALSE],
           room |-> "", first |-> FALSE]

NoData == [username |-> Undefined, room |-> Undefined, isAdmin |-> FALSE,
           adminSecret |-> Undefined]

\* A client event that changes the state is taken while the run has budget for it.
ClientEvent ==
    /\ events < budget
    /\ events' = events + 1
    /\ UNCHANGED << record, budget >>
\* A step that takes no budget.
Free == UNCHANGED << events, record, budget >>
\* The handler state of the SQL variants, which src/server.js does not have.
sqlvars == << hrows, drows, wpc, wdata, lwrote, sweeps >>
\* The outcomes of one database statement: it succeeds or it throws.
DbOutcomes == BOOLEAN

\* ----------------------------------------------------------- object helpers
\* {}
EmptyObj == [k \in {} |-> 0]
\* delete obj[key]
Delete(obj, key) == [k \in (DOMAIN obj) \ {key} |-> obj[k]]
\* obj[key] = value
Put(obj, key, value) == [k \in (DOMAIN obj) \cup {key} |-> IF k = key THEN value ELSE obj[k]]
\* obj[key] || 0
OrZero(obj, key) == IF key \in DOMAIN obj THEN obj[key] ELSE 0

\* ---------------------------------------------------------------- emitting
Connected == { c \in Conns : conn[c] = "open" }
Msg(to, ev, arg) == [to |-> to, ev |-> ev, arg |-> arg]
\* io.emit(ev, arg) where the code has socket.emit(ev, arg)
EmitToEveryone(c, ev, arg) == << Msg(Connected, ev, arg) >>
\* socket.emit(ev, arg)
SocketEmit(c, ev, arg) == << Msg({c}, ev, arg) >>
\* io.emit(ev, arg), with `open` the sockets connected at that time
IoEmit(open, ev, arg) == IF open = {} THEN << >> ELSE << Msg(open, ev, arg) >>
\* io.to(room).emit(ev, arg)
RoomEmit(open, jn, room, ev, arg) ==
    LET to == { c \in open : room \in jn[c] }
    IN  IF to = {} THEN << >> ELSE << Msg(to, ev, arg) >>

\* What a segment emits becomes sent.
Send(msgs) == sent' = IF record THEN msgs ELSE << >>

\* updateRoomsList()
UpdateRoomsList(open, rms) == IoEmit(open, "roomsListUpdate", DOMAIN rms)

\* The filter of line 231 without its test of isAdmin.
SessionsOfRoom(us, room) == { id \in DOMAIN us : us[id].room = room }
PlayerIds(us, room) == { id \in DOMAIN us : us[id].room = room /\ ~us[id].isAdmin }
AdminIds(us, room) == { id \in DOMAIN us : us[id].room = room /\ us[id].isAdmin }
NamesBag(us, ids) ==
    [ u \in { us[id].username : id \in ids } |->
        Cardinality({ id \in ids : us[id].username = u }) ]

\* updateAdminInfo(room)
UpdateAdminInfo(open, us, room) ==
    LET players == PlayerIds(us, room)
        to == AdminIds(us, room) \cap open
    IN  IF to = {} THEN << >>
        ELSE << Msg(to, "playersUpdate",
                    [players |-> NamesBag(us, players), count |-> Cardinality(players)]) >>

\* users[id].lineCount || 0
LineCountOf(u) == IF "lineCount" \in DOMAIN u THEN u.lineCount ELSE 0
LineCounts(us, room) ==
    [ i \in 0..MaxLine |->
        NamesBag(us, { id \in PlayerIds(us, room) : LineCountOf(us[id]) = i }) ]

\* updateAdminLineCounts(room)
UpdateAdminLineCounts(open, us, room) ==
    LET to == AdminIds(us, room) \cap open
    IN  IF to = {} THEN << >>
        ELSE << Msg(to, "lineCountUpdate", LineCounts(us, room)) >>

\* ------------------------------------------------------------------- state
Init ==
    /\ conn = [c \in Conns |-> "new"]
    /\ joined = [c \in Conns |-> {}]
    /\ users = EmptyObj
    /\ rooms = EmptyObj
    /\ drawnNumbers = EmptyObj
    /\ roomTimers = {}
    /\ dbRooms = {}
    /\ lpc = [c \in Conns |-> "idle"]
    /\ ldata = [c \in Conns |-> NoData]
    /\ lrows = [c \in Conns |-> FALSE]
    /\ dpc = [c \in Conns |-> "idle"]
    /\ droom = [c \in Conns |-> ""]
    /\ sent = << >>
    /\ record = FALSE
    /\ budget = MaxEvents
    /\ hrows = [c \in Conns |-> << >>]
    /\ drows = [c \in Conns |-> << >>]
    /\ wpc = [d \in Draws |-> "idle"]
    /\ wdata = [d \in Draws |-> NoDraw]
    /\ net = [r \in RoomNames |-> 0]
    /\ crashed = FALSE
    /\ events = 0
    /\ lwrote = [c \in Conns |-> FALSE]
    /\ sweeps = [w \in Sweeps |-> NoSweep]

\* io.on('connection'): the new socket is sent the room list.
Connect(c) ==
    /\ ~crashed
    /\ UNCHANGED sqlvars
    /\ Free
    /\ conn[c] = "new"
    /\ \A d \in Conns : <<d, c>> \in Earlier => conn[d] # "new"
    /\ conn' = [conn EXCEPT ![c] = "open"]
    /\ Send(SocketEmit(c, "roomsListUpdate", DOMAIN rooms))
    /\ UNCHANGED << joined, users, rooms, drawnNumbers, roomTimers, dbRooms,
                    lpc, ldata, lrows, dpc, droom, net, crashed >>

\* ------------------------------------------------------------------- login
\* getRoom(roomName): the rows found, none when the query fails.
GetRoom(roomName, ok) == ok /\ roomName \in dbRooms

\* createRoom(roomName, adminName): INSERT INTO rooms, a failure is logged.
CreateRoom(roomName, ok) == IF ok THEN dbRooms \cup {roomName} ELSE dbRooms

\* The session stored by users[socket.id] = { username, room, isAdmin }.
Session(data) == [username |-> data.username, room |-> data.room, isAdmin |-> data.isAdmin]

\* Admit without the test of line 129: the drawn list is started at every login.
AdmitStartsList(c) ==
    LET data == ldata[c]
    IN  /\ rooms' = Put(rooms, data.room, OrZero(rooms, data.room) + 1)
        /\ users' = Put(users, c, Session(data))
        /\ joined' = [joined EXCEPT ![c] = @ \cup {data.room}]
        /\ drawnNumbers' = Put(drawnNumbers, data.room, << >>)
        /\ roomTimers' = roomTimers \ {data.room}
        /\ net' = [net EXCEPT ![data.room] = @ + 1]

\* Admit with lines 134-137 arming a timer for the room where the code clears it.
AdmitArmsTimer(c) ==
    LET data == ldata[c]
    IN  /\ rooms' = Put(rooms, data.room, OrZero(rooms, data.room) + 1)
        /\ users' = Put(users, c, Session(data))
        /\ joined' = [joined EXCEPT ![c] = @ \cup {data.room}]
        /\ drawnNumbers' = IF data.room \in DOMAIN drawnNumbers THEN drawnNumbers
                           ELSE Put(drawnNumbers, data.room, << >>)
        /\ roomTimers' = roomTimers \cup {data.room}
        /\ net' = [net EXCEPT ![data.room] = @ + 1]

\* Lines 121-137: count the member, store the session, join the socket.io room,
\* start the drawn list, clear a pending timer.
Admit(c) ==
    LET data == ldata[c]
    IN  /\ rooms' = Put(rooms, data.room, OrZero(rooms, data.room) + 1)
        /\ users' = Put(users, c, Session(data))
        /\ joined' = [joined EXCEPT ![c] = @ \cup {data.room}]
        /\ drawnNumbers' = IF data.room \in DOMAIN drawnNumbers THEN drawnNumbers
                           ELSE Put(drawnNumbers, data.room, << >>)
        /\ roomTimers' = roomTimers \ {data.room}
        /\ net' = [net EXCEPT ![data.room] = @ + 1]

\* LoginSuccess with io.emit in the place of socket.emit on line 145.
LoginSuccessToAll(c, us, rms) ==
    LET data == ldata[c]
    IN  UpdateRoomsList(Connected, rms)
        \o IoEmit(Connected, "loginSuccess", [room |-> data.room, isAdmin |-> data.isAdmin])
        \o UpdateAdminInfo(Connected, us, data.room)

\* Lines 144-146: room list to all, loginSuccess to the caller, players to the admins.
LoginSuccess(c, us, rms) ==
    LET data == ldata[c]
    IN  UpdateRoomsList(Connected, rms)
        \o SocketEmit(c, "loginSuccess", [room |-> data.room, isAdmin |-> data.isAdmin])
        \o UpdateAdminInfo(Connected, us, data.room)

\* The handler returns: its closure is dropped.
LoginReturn(c) ==
    /\ lpc' = [lpc EXCEPT ![c] = "idle"]
    /\ ldata' = [ldata EXCEPT ![c] = NoData]
    /\ lrows' = [lrows EXCEPT ![c] = FALSE]

\* socket.on('login'), lines 94-108/115: validate, then await getRoom.
Login(c, data) ==
    /\ ~crashed
    /\ UNCHANGED sqlvars
    /\ conn[c] = "open"
    /\ lpc[c] = "idle"
    /\ IF \/ ~Truthy(data.username) \/ ~Truthy(data.room)
          \/ ~IsString(data.username) \/ ~IsString(data.room)
       THEN /\ Send(SocketEmit(c, "loginError", "notAString"))
            /\ Free /\ UNCHANGED << lpc, ldata, lrows >>
       ELSE IF Trim(data.username) = "" \/ Trim(data.room) = ""
       THEN /\ Send(SocketEmit(c, "loginError", "blank"))
            /\ Free /\ UNCHANGED << lpc, ldata, lrows >>
       ELSE /\ ClientEvent
            /\ \E ok \in DbOutcomes :
                  /\ lrows' = [lrows EXCEPT ![c] = GetRoom(data.room, ok)]
            /\ lpc' = [lpc EXCEPT ![c] = "getRoom"]
            /\ ldata' = [ldata EXCEPT ![c] = data]
            /\ Send(<< >>)
    /\ UNCHANGED << conn, joined, users, rooms, drawnNumbers, roomTimers, dbRooms,
                    dpc, droom, net, crashed >>

\* Lines 109-112: a player and no row: loginError, nothing else.
LoginRoomNotFound(c) ==
    /\ ~crashed
    /\ UNCHANGED sqlvars
    /\ Free
    /\ lpc[c] = "getRoom"
    /\ ~ldata[c].isAdmin /\ ~lrows[c]
    /\ Send(SocketEmit(c, "loginError", "roomNotFound"))
    /\ LoginReturn(c)
    /\ UNCHANGED << conn, joined, users, rooms, drawnNumbers, roomTimers, dbRooms,
                    dpc, droom, net, crashed >>

\* Lines 116-118: an admin and no row: await createRoom.
LoginCreateRoom(c) ==
    /\ ~crashed
    /\ UNCHANGED sqlvars
    /\ Free
    /\ lpc[c] = "getRoom"
    /\ ldata[c].isAdmin /\ ~lrows[c]
    /\ \E ok \in DbOutcomes :
          /\ dbRooms' = CreateRoom(ldata[c].room, ok)
    /\ lpc' = [lpc EXCEPT ![c] = "createRoom"]
    /\ Send(<< >>)
    /\ UNCHANGED << conn, joined, users, rooms, drawnNumbers, roomTimers,
                    ldata, lrows, dpc, droom, net, crashed >>

\* The admin path with the late-join lock of the player path: an admin is
\* refused once the room's drawn list holds a number.
LoginAdmitAdminUnlessDrawn(c) ==
    /\ ~crashed
    /\ UNCHANGED sqlvars
    /\ Free
    /\ IF lpc[c] = "getRoom" THEN lrows[c] ELSE lpc[c] = "createRoom"
    /\ ldata[c].isAdmin
    /\ IF ldata[c].room \in DOMAIN drawnNumbers /\ drawnNumbers[ldata[c].room] # << >>
       THEN /\ Send(SocketEmit(c, "loginError", "hasDrawn"))
            /\ UNCHANGED << joined, users, rooms, drawnNumbers, roomTimers, net >>
       ELSE /\ Admit(c)
            /\ Send(LoginSuccess(c, users', rooms'))
    /\ LoginReturn(c)
    /\ UNCHANGED << conn, dbRooms, dpc, droom, crashed >>

\* Lines 121-146 for an admin: no await on this path.
LoginAdmitAdmin(c) ==
    /\ ~crashed
    /\ UNCHANGED sqlvars
    /\ Free
    /\ IF lpc[c] = "getRoom" THEN lrows[c] ELSE lpc[c] = "createRoom"
    /\ ldata[c].isAdmin
    /\ Admit(c)
    /\ Send(LoginSuccess(c, users', rooms'))
    /\ LoginReturn(c)
    /\ UNCHANGED << conn, dbRooms, dpc, droom, crashed >>

\* Lines 121-141 for a player: admitted, then await addPlayer.
LoginAdmitPlayer(c) ==
    /\ ~crashed
    /\ UNCHANGED sqlvars
    /\ Free
    /\ lpc[c] = "getRoom"
    /\ ~ldata[c].isAdmin /\ lrows[c]
    /\ Admit(c)
    /\ Send(<< >>)
    /\ lpc' = [lpc EXCEPT ![c] = "addPlayer"]
    /\ UNCHANGED << conn, dbRooms, ldata, lrows, dpc, droom, crashed >>

\* Lines 144-146 for a player, after addPlayer.
LoginFinishPlayer(c) ==
    /\ ~crashed
    /\ UNCHANGED sqlvars
    /\ Free
    /\ lpc[c] = "addPlayer"
    /\ Send(LoginSuccess(c, users, rooms))
    /\ LoginReturn(c)
    /\ UNCHANGED << conn, joined, users, rooms, drawnNumbers, roomTimers, dbRooms,
                    dpc, droom, net, crashed >>

\* ------------------------------------------------------------ other events
\* socket.on('requestRoomsList')
RequestRoomsList(c) ==
    /\ ~crashed
    /\ UNCHANGED sqlvars
    /\ Free
    /\ conn[c] = "open"
    /\ Send(SocketEmit(c, "roomsListUpdate", DOMAIN rooms))
    /\ UNCHANGED << conn, joined, users, rooms, drawnNumbers, roomTimers, dbRooms,
                    lpc, ldata, lrows, dpc, droom, net, crashed >>

\* typeof number !== 'number' || number < 1 || number > 36
InvalidNumber(number) ==
    \/ number.type # "number"
    \/ JsLess(number, MinNumber)
    \/ JsGreater(number, MaxNumber)

\* drawnNumbers[room].includes(String(number)): the list is searched for the
\* text of the number, which a list of numbers never holds
IncludesText(list, number) == \E i \in 1..Len(list) : list[i] = JsStr(number.val)
\* drawnNumbers[room].includes(number)
Includes(list, number) == \E i \in 1..Len(list) : list[i] = number

\* socket.on('drawNumber')
DrawNumber(c, number) ==
    /\ ~crashed
    /\ UNCHANGED sqlvars
    /\ conn[c] = "open"
    /\ IF c \notin DOMAIN users
       THEN /\ Send(SocketEmit(c, "errorMessage", "notAdmin"))
            /\ Free /\ UNCHANGED << drawnNumbers, crashed >>
       ELSE IF ~users[c].isAdmin
       THEN /\ Send(SocketEmit(c, "errorMessage", "notAdmin"))
            /\ Free /\ UNCHANGED << drawnNumbers, crashed >>
       ELSE IF InvalidNumber(number)
       THEN /\ Send(SocketEmit(c, "errorMessage", "invalidNumber"))
            /\ Free /\ UNCHANGED << drawnNumbers, crashed >>
       ELSE IF users[c].room \notin DOMAIN drawnNumbers
       THEN \* drawnNumbers[room] is undefined: TypeError
            /\ crashed' = TRUE
            /\ Send(<< >>)
            /\ Free /\ UNCHANGED drawnNumbers
       ELSE IF Includes(drawnNumbers[users[c].room], number)
       THEN /\ Send(SocketEmit(c, "errorMessage", "alreadyDrawn"))
            /\ Free /\ UNCHANGED << drawnNumbers, crashed >>
       ELSE LET room == users[c].room
            IN  /\ Len(drawnNumbers[room]) < MaxDrawn
                /\ ClientEvent
                /\ drawnNumbers' = [drawnNumbers EXCEPT ![room] = Append(@, number)]
                /\ Send(RoomEmit(Connected, joined, room, "numberDrawn", number)
                        \o RoomEmit(Connected, joined, room, "lockCards", "")
                        \o UpdateAdminInfo(Connected, users, room)
                        \o UpdateAdminLineCounts(Connected, users, room))
                /\ UNCHANGED crashed
    /\ UNCHANGED << conn, joined, users, rooms, roomTimers, dbRooms,
                    lpc, ldata, lrows, dpc, droom, net >>

\* The line count is stored only when it is one of the buckets.
WithLineCountInRange(u, lineCount) ==
    IF lineCount \in 0..MaxLine
    THEN [username |-> u.username, room |-> u.room, isAdmin |-> u.isAdmin,
          lineCount |-> lineCount]
    ELSE u
\* user.lineCount = data.lineCount
WithLineCount(u, lineCount) ==
    [username |-> u.username, room |-> u.room, isAdmin |-> u.isAdmin, lineCount |-> lineCount]

\* The handler with the test of line 183 reduced to `if (user)`.
UpdateLineCountAnyRole(c, lineCount) ==
    /\ ~crashed
    /\ UNCHANGED sqlvars
    /\ conn[c] = "open"
    /\ IF c \in DOMAIN users
       THEN /\ ClientEvent
            /\ users' = [users EXCEPT ![c] = WithLineCount(@, lineCount)]
            /\ Send(UpdateAdminLineCounts(Connected, users', users[c].room))
       ELSE /\ Send(<< >>)
            /\ Free /\ UNCHANGED users
    /\ UNCHANGED << conn, joined, rooms, drawnNumbers, roomTimers, dbRooms,
                    lpc, ldata, lrows, dpc, droom, net, crashed >>

\* socket.on('updateLineCount')
UpdateLineCount(c, lineCount) ==
    /\ ~crashed
    /\ UNCHANGED sqlvars
    /\ conn[c] = "open"
    /\ IF c \in DOMAIN users /\ ~users[c].isAdmin
       THEN /\ ClientEvent
            /\ users' = [users EXCEPT ![c] = WithLineCount(@, lineCount)]
            /\ Send(UpdateAdminLineCounts(Connected, users', users[c].room))
       ELSE /\ Send(<< >>)
            /\ Free /\ UNCHANGED users
    /\ UNCHANGED << conn, joined, rooms, drawnNumbers, roomTimers, dbRooms,
                    lpc, ldata, lrows, dpc, droom, net, crashed >>

\* -------------------------------------------------------------- disconnect
\* Lines 212-214: room list to all, players and line counts to the room's admins.
LeaveBroadcast(open, us, rms, room) ==
    UpdateRoomsList(open, rms)
    \o UpdateAdminInfo(open, us, room)
    \o UpdateAdminLineCounts(open, us, room)

\* The disconnect handler with updateRoomsList (line 212) moved below the test
\* of line 194, so that it runs for a socket without a session too.
DisconnectAlwaysBroadcasts(c) ==
    /\ ~crashed
    /\ UNCHANGED sqlvars
    /\ ClientEvent
    /\ conn[c] = "open"
    /\ conn' = [conn EXCEPT ![c] = "closed"]
    /\ joined' = [joined EXCEPT ![c] = {}]
    /\ IF c \notin DOMAIN users
       THEN /\ Send(UpdateRoomsList(Connected', rooms))
            /\ UNCHANGED << users, rooms, drawnNumbers, roomTimers, dpc, droom, net >>
       ELSE LET room == users[c].room
            IN  /\ users' = Delete(users, c)
                /\ net' = [net EXCEPT ![room] = @ - 1]
                /\ IF OrZero(rooms, room) = 0
                   THEN /\ Send(LeaveBroadcast(Connected', users', rooms, room))
                        /\ UNCHANGED << rooms, drawnNumbers, roomTimers, dpc, droom >>
                   ELSE IF rooms[room] - 1 <= 0
                   THEN /\ rooms' = Delete(rooms, room)
                        /\ drawnNumbers' = Delete(drawnNumbers, room)
                        /\ roomTimers' = roomTimers \ {room}
                        /\ dpc' = [dpc EXCEPT ![c] = "deleteRoomFromDB"]
                        /\ droom' = [droom EXCEPT ![c] = room]
                        /\ Send(<< >>)
                   ELSE /\ rooms' = [rooms EXCEPT ![room] = @ - 1]
                        /\ Send(LeaveBroadcast(Connected', users', rooms', room))
                        /\ UNCHANGED << drawnNumbers, roomTimers, dpc, droom >>
    /\ UNCHANGED << dbRooms, lpc, ldata, lrows, crashed >>

\* socket.on('disconnect'), lines 192-208 and, when no room is deleted, 212-214.
\* socket.io has taken the socket out of its rooms before the handler runs.
Disconnect(c) ==
    /\ ~crashed
    /\ UNCHANGED sqlvars
    /\ ClientEvent
    /\ conn[c] = "open"
    /\ conn' = [conn EXCEPT ![c] = "closed"]
    /\ joined' = [joined EXCEPT ![c] = {}]
    /\ IF c \notin DOMAIN users
       THEN /\ Send(<< >>)
            /\ UNCHANGED << users, rooms, drawnNumbers, roomTimers, dpc, droom, net >>
       ELSE LET room == users[c].room
            IN  /\ users' = Delete(users, c)
                /\ net' = [net EXCEPT ![room] = @ - 1]
                /\ IF OrZero(rooms, room) = 0
                   THEN /\ Send(LeaveBroadcast(Connected', users', rooms, room))
                        /\ UNCHANGED << rooms, drawnNumbers, roomTimers, dpc, droom >>
                   ELSE IF rooms[room] - 1 <= 0
                   THEN /\ rooms' = Delete(rooms, room)
                        /\ drawnNumbers' = Delete(drawnNumbers, room)
                        /\ roomTimers' = roomTimers \ {room}
                        /\ dpc' = [dpc EXCEPT ![c] = "deleteRoomFromDB"]
                        /\ droom' = [droom EXCEPT ![c] = room]
                        /\ Send(<< >>)
                   ELSE /\ rooms' = [rooms EXCEPT ![room] = @ - 1]
                        /\ Send(LeaveBroadcast(Connected', users', rooms', room))
                        /\ UNCHANGED << drawnNumbers, roomTimers, dpc, droom >>
    /\ UNCHANGED << dbRooms, lpc, ldata, lrows, crashed >>

\* deleteRoomFromDB(roomName): DELETE FROM rooms, a failure is logged.
DeleteRoomFromDB(c) ==
    /\ ~crashed
    /\ UNCHANGED sqlvars
    /\ Free
    /\ dpc[c] = "deleteRoomFromDB"
    /\ \E ok \in DbOutcomes :
          /\ dbRooms' = IF ok THEN dbRooms \ {droom[c]} ELSE dbRooms
    /\ dpc' = [dpc EXCEPT ![c] = "deleted"]
    /\ Send(<< >>)
    /\ UNCHANGED << conn, joined, users, rooms, drawnNumbers, roomTimers,
                    lpc, ldata, lrows, droom, net, crashed >>

\* Lines 212-214 after the await of deleteRoomFromDB.
DisconnectResume(c) ==
    /\ ~crashed
    /\ UNCHANGED sqlvars
    /\ Free
    /\ dpc[c] = "deleted"
    /\ Send(LeaveBroadcast(Connected, users, rooms, droom[c]))
    /\ dpc' = [dpc EXCEPT ![c] = "idle"]
    /\ droom' = [droom EXCEPT ![c] = ""]
    /\ UNCHANGED << conn, joined, users, rooms, drawnNumbers, roomTimers, dbRooms,
                    lpc, ldata, lrows, net, crashed >>

\* ---------------------------------------------------------- reconciliation
\* The count of lines 271-276 with the sessions of admins left out.
PlayerCount(us, room) == Cardinality(PlayerIds(us, room))

\* The count the sweep computes for a room.
ActualCount(us, room) == Cardinality({ id \in DOMAIN us : us[id].room = room })

\* setInterval(..., 60 * 1000)
Reconcile ==
    /\ ~crashed
    /\ UNCHANGED sqlvars
    /\ Free
    /\ rooms' = [room \in DOMAIN rooms |-> ActualCount(users, room)]
    /\ Send(UpdateRoomsList(Connected, rooms'))
    /\ UNCHANGED << conn, joined, users, drawnNumbers, roomTimers, dbRooms,
                    lpc, ldata, lrows, dpc, droom, net, crashed >>

Next ==
    \/ \E c \in Conns : Connect(c)
    \/ \E c \in Conns : \E data \in LoginInputs(c) : Login(c, data)
    \/ \E c \in Conns : LoginRoomNotFound(c)
    \/ \E c \in Conns : LoginCreateRoom(c)
    \/ \E c \in Conns : LoginAdmitAdmin(c)
    \/ \E c \in Conns : LoginAdmitPlayer(c)
    \/ \E c \in Conns : LoginFinishPlayer(c)
    \/ \E c \in Conns : RequestRoomsList(c)
    \/ \E c \in Conns, number \in DrawInputs : DrawNumber(c, number)
    \/ \E c \in Conns, lineCount \in LineInputs : UpdateLineCount(c, lineCount)
    \/ \E c \in Conns : Disconnect(c)
    \/ \E c \in Conns : DeleteRoomFromDB(c)
    \/ \E c \in Conns : DisconnectResume(c)
    \/ Reconcile

Spec == Init /\ [][Next]_vars

\* Fair runs of src/server.js: a handler suspended at an await is resumed
\* when its promise settles (the event loop runs every continuation that is
\* ready), and the interval timer of line 269 keeps firing.  Client events are
\* under no fairness: a client may stay silent.
HandlerStep ==
    \E c \in Conns :
        \/ LoginRoomNotFound(c) \/ LoginCreateRoom(c) \/ LoginAdmitAdmin(c)
        \/ LoginAdmitPlayer(c) \/ LoginFinishPlayer(c)
        \/ DeleteRoomFromDB(c) \/ DisconnectResume(c)
FairSpec == Init /\ [][Next]_vars /\ WF_vars(HandlerStep) /\ WF_vars(Reconcile)

\* The same program in runs that keep what each segment emits.
InitSent ==
    /\ conn = [c \in Conns |-> "new"]
    /\ joined = [c \in Conns |-> {}]
    /\ users = EmptyObj
    /\ rooms = EmptyObj
    /\ drawnNumbers = EmptyObj
    /\ roomTimers = {}
    /\ dbRooms = {}
    /\ lpc = [c \in Conns |-> "idle"]
    /\ ldata = [c \in Conns |-> NoData]
    /\ lrows = [c \in Conns |-> FALSE]
    /\ dpc = [c \in Conns |-> "idle"]
    /\ droom = [c \in Conns |-> ""]
    /\ sent = << >>
    /\ record = TRUE
    /\ budget = MaxSentEvents
    /\ hrows = [c \in Conns |-> << >>]
    /\ drows = [c \in Conns |-> << >>]
    /\ wpc = [d \in Draws |-> "idle"]
    /\ wdata = [d \in Draws |-> NoDraw]
    /\ net = [r \in RoomNames |-> 0]
    /\ crashed = FALSE
    /\ events = 0
    /\ lwrote = [c \in Conns |-> FALSE]
    /\ sweeps = [w \in Sweeps |-> NoSweep]

SpecSent == InitSent /\ [][Next]_vars

\* ============================================================ the SQL variant
\* SqlSpec models src/unnamed/part_003: users, rooms and drawnNumbers are the
\* MySQL tables users, rooms (user_count, has_drawn) and drawn_numbers (the rows
\* of a room in drawn_at order), and every handler is async.  An action is the
\* execution of the statement a handler awaits together with the handler's code
\* up to its next await.  A statement may fail; the helpers catch and log.
\* updateRoomsList, updateAdminInfo and updateAdminLineCounts only read the
\* tables and emit: SqlSpec, which keeps no emissions, leaves them out, and with
\* them updateLineCount, which changes no row a login, a draw, a disconnect or
\* the sweep reads.
\* What no handler of a connection writes: the state only src/server.js has,
\* and the runs of the sweep.
memvars == << roomTimers, dbRooms, lrows, net, crashed, lwrote, sweeps >>

InitSql ==
    /\ conn = [c \in Conns |-> "new"]
    /\ joined = [c \in Conns |-> {}]
    /\ users = EmptyObj
    /\ rooms = EmptyObj
    /\ drawnNumbers = EmptyObj
    /\ roomTimers = {}
    /\ dbRooms = {}
    /\ lpc = [c \in Conns |-> "idle"]
    /\ ldata = [c \in Conns |-> NoData]
    /\ lrows = [c \in Conns |-> FALSE]
    /\ dpc = [c \in Conns |-> "idle"]
    /\ droom = [c \in Conns |-> ""]
    /\ sent = << >>
    /\ record = FALSE
    /\ budget = MaxSqlEvents
    /\ hrows = [c \in Conns |-> << >>]
    /\ drows = [c \in Conns |-> << >>]
    /\ wpc = [d \in Draws |-> "idle"]
    /\ wdata = [d \in Draws |-> NoDraw]
    /\ net = [r \in RoomNames |-> 0]
    /\ crashed = FALSE
    /\ events = 0
    /\ lwrote = [c \in Conns |-> FALSE]
    /\ sweeps = [w \in Sweeps |-> NoSweep]

\* io.on('connection'): the room list is sent after a query.
SqlConnect(c) ==
    /\ Free
    /\ conn[c] = "new"
    /\ \A d \in Conns : <<d, c>> \in Earlier => conn[d] # "new"
    /\ conn' = [conn EXCEPT ![c] = "open"]
    /\ Send(<< >>)
    /\ UNCHANGED << joined, users, rooms, drawnNumbers, lpc, ldata, dpc, droom,
                    hrows, drows, wpc, wdata, memvars >>

\* SELECT * FROM rooms WHERE room_name = ?
SqlRoomRows(roomName, ok) ==
    IF ok /\ roomName \in DOMAIN rooms THEN << rooms[roomName] >> ELSE << >>

\* Math.max(0, n)
Max0(n) == IF n < 0 THEN 0 ELSE n

\* createOrUpdateRoom(roomName, changeUserCount) after its SELECT returned
\* roomRows: the INSERT (refused when the key exists) or the UPDATE.
CreateOrUpdateRoom(roomRows, roomName, changeUserCount, ok) ==
    IF ~ok THEN rooms
    ELSE IF Len(roomRows) = 0
    THEN IF roomName \in DOMAIN rooms THEN rooms
         ELSE Put(rooms, roomName,
                  [user_count |-> IF changeUserCount > 0 THEN changeUserCount ELSE 0,
                   has_drawn |-> FALSE])
    ELSE IF roomName \in DOMAIN rooms
    THEN [rooms EXCEPT ![roomName].user_count = Max0(roomRows[1].user_count + changeUserCount)]
    ELSE rooms

SqlLoginReturn(c) ==
    /\ lpc' = [lpc EXCEPT ![c] = "idle"]
    /\ ldata' = [ldata EXCEPT ![c] = NoData]
    /\ hrows' = [hrows EXCEPT ![c] = << >>]

\* socket.on('login'), lines 330-341: validate, then await getRoom.
SqlLogin(c, data) ==
    /\ conn[c] = "open"
    /\ lpc[c] = "idle"
    /\ IF \/ ~Truthy(data.username) \/ ~Truthy(data.room)
          \/ ~IsString(data.username) \/ ~IsString(data.room)
       THEN /\ Send(SocketEmit(c, "loginError", "notAString"))
            /\ Free /\ UNCHANGED << lpc, ldata >>
       ELSE IF Trim(data.username) = "" \/ Trim(data.room) = ""
       THEN /\ Send(SocketEmit(c, "loginError", "blank"))
            /\ Free /\ UNCHANGED << lpc, ldata >>
       ELSE /\ ClientEvent
            /\ lpc' = [lpc EXCEPT ![c] = "getRoom"]
            /\ ldata' = [ldata EXCEPT ![c] = data]
            /\ Send(<< >>)
    /\ UNCHANGED << conn, joined, users, rooms, drawnNumbers, dpc, droom,
                    hrows, drows, wpc, wdata, memvars >>

\* Lines 344-366: getRoom has returned; a player is refused without a row or
\* with has_drawn set.
SqlLoginGetRoom(c) ==
    /\ Free
    /\ lpc[c] = "getRoom"
    /\ \E ok \in DbOutcomes :
          LET room == SqlRoomRows(ldata[c].room, ok)
          IN  IF ~ldata[c].isAdmin /\ Len(room) = 0
              THEN /\ Send(SocketEmit(c, "loginError", "roomNotFound"))
                   /\ SqlLoginReturn(c)
              ELSE IF ~ldata[c].isAdmin /\ room[1].has_drawn
              THEN /\ Send(SocketEmit(c, "loginError", "hasDrawn"))
                   /\ SqlLoginReturn(c)
              ELSE /\ Send(<< >>)
                   /\ lpc' = [lpc EXCEPT ![c] =
                                 IF ldata[c].isAdmin THEN "selectRoom" ELSE "getRoomAdmins"]
                   /\ UNCHANGED << ldata, hrows >>
    /\ UNCHANGED << conn, joined, users, rooms, drawnNumbers, dpc, droom,
                    drows, wpc, wdata, memvars >>

\* Lines 356-360: getRoomAdmins has returned.
SqlLoginGetRoomAdmins(c) ==
    /\ Free
    /\ lpc[c] = "getRoomAdmins"
    /\ \E ok \in DbOutcomes :
          IF ~ok \/ AdminIds(users, ldata[c].room) = {}
          THEN /\ Send(SocketEmit(c, "loginError", "noAdmin"))
               /\ SqlLoginReturn(c)
          ELSE /\ Send(<< >>)
               /\ lpc' = [lpc EXCEPT ![c] = "selectRoom"]
               /\ UNCHANGED << ldata, hrows >>
    /\ UNCHANGED << conn, joined, users, rooms, drawnNumbers, dpc, droom,
                    drows, wpc, wdata, memvars >>

\* createOrUpdateRoom(data.room, 1), line 149: its SELECT; a failure makes it return null.
SqlLoginSelectRoom(c) ==
    /\ Free
    /\ lpc[c] = "selectRoom"
    /\ \E ok \in DbOutcomes :
          IF ok
          THEN /\ hrows' = [hrows EXCEPT ![c] = SqlRoomRows(ldata[c].room, TRUE)]
               /\ lpc' = [lpc EXCEPT ![c] = "writeRoom"]
          ELSE /\ lpc' = [lpc EXCEPT ![c] = "saveUser"]
               /\ UNCHANGED hrows
    /\ Send(<< >>)
    /\ UNCHANGED << conn, joined, users, rooms, drawnNumbers, ldata, dpc, droom,
                    drows, wpc, wdata, memvars >>

\* createOrUpdateRoom(data.room, 1), lines 150-174: its INSERT or UPDATE.
SqlLoginWriteRoom(c) ==
    /\ Free
    /\ lpc[c] = "writeRoom"
    /\ \E ok \in DbOutcomes :
          rooms' = CreateOrUpdateRoom(hrows[c], ldata[c].room, 1, ok)
    /\ lpc' = [lpc EXCEPT ![c] = "saveUser"]
    /\ Send(<< >>)
    /\ UNCHANGED << conn, joined, users, drawnNumbers, ldata, dpc, droom,
                    hrows, drows, wpc, wdata, memvars >>

\* Lines 373-386: saveUser (the INSERT is refused when the id has a row), join,
\* loginSuccess.
SqlLoginSaveUser(c) ==
    /\ Free
    /\ lpc[c] = "saveUser"
    /\ \E ok \in DbOutcomes :
          users' = IF ok /\ c \notin DOMAIN users
                   THEN Put(users, c, WithLineCount(Session(ldata[c]), 0))
                   ELSE users
    /\ joined' = [joined EXCEPT ![c] = @ \cup {ldata[c].room}]
    /\ Send(SocketEmit(c, "loginSuccess",
                       [room |-> ldata[c].room, isAdmin |-> ldata[c].isAdmin]))
    /\ SqlLoginReturn(c)
    /\ UNCHANGED << conn, rooms, drawnNumbers, dpc, droom, drows, wpc, wdata, memvars >>

\* ---- drawNumber
\* SELECT number FROM drawn_numbers WHERE room = ? ORDER BY drawn_at
GetDrawnNumbers(room, ok) ==
    IF ok /\ room \in DOMAIN drawnNumbers THEN drawnNumbers[room] ELSE << >>

IdleDraws == { d \in Draws : wpc[d] = "idle" }

SqlDrawReturn(d) ==
    /\ wpc' = [wpc EXCEPT ![d] = "idle"]
    /\ wdata' = [wdata EXCEPT ![d] = NoDraw]

\* socket.on('drawNumber'), line 395: a handler starts and awaits getUser.
SqlDrawNumber(c, number) ==
    /\ ClientEvent
    /\ conn[c] = "open"
    /\ IdleDraws # {}
    /\ LET d == CHOOSE d \in IdleDraws : \A e \in IdleDraws : d <= e
       IN  /\ wpc' = [wpc EXCEPT ![d] = "getUser"]
           /\ wdata' = [wdata EXCEPT ![d] = [NoDraw EXCEPT !.socket = c, !.number = number]]
    /\ Send(<< >>)
    /\ UNCHANGED << conn, joined, users, rooms, drawnNumbers, lpc, ldata, dpc, droom,
                    hrows, drows, memvars >>

\* Lines 396-408: getUser has returned; the caller must be an admin and the
\* number valid.
SqlDrawGetUser(d) ==
    /\ Free
    /\ wpc[d] = "getUser"
    /\ \E ok \in DbOutcomes :
          LET c == wdata[d].socket
          IN  IF ~ok \/ c \notin DOMAIN users
              THEN Send(SocketEmit(c, "errorMessage", "notAdmin")) /\ SqlDrawReturn(d)
              ELSE IF ~users[c].isAdmin
              THEN Send(SocketEmit(c, "errorMessage", "notAdmin")) /\ SqlDrawReturn(d)
              ELSE IF InvalidNumber(wdata[d].number)
              THEN Send(SocketEmit(c, "errorMessage", "invalidNumber")) /\ SqlDrawReturn(d)
              ELSE /\ Send(<< >>)
                   /\ wpc' = [wpc EXCEPT ![d] = "getDrawnNumbers"]
                   /\ wdata' = [wdata EXCEPT ![d].room = users[c].room]
    /\ UNCHANGED << conn, joined, users, rooms, drawnNumbers, lpc, ldata, dpc, droom,
                    hrows, drows, memvars >>

\* Lines 410-414: getDrawnNumbers has returned (an empty list when it failed).
SqlDrawGetDrawnNumbers(d) ==
    /\ Free
    /\ wpc[d] = "getDrawnNumbers"
    /\ \E ok \in DbOutcomes :
          LET drawn == GetDrawnNumbers(wdata[d].room, ok)
          IN  IF Includes(drawn, wdata[d].number)
              THEN /\ Send(SocketEmit(wdata[d].socket, "errorMessage", "alreadyDrawn"))
                   /\ SqlDrawReturn(d)
              ELSE /\ Send(<< >>)
                   /\ wpc' = [wpc EXCEPT ![d] = "saveDrawnNumber"]
                   /\ wdata' = [wdata EXCEPT ![d].first = (Len(drawn) = 0)]
    /\ UNCHANGED << conn, joined, users, rooms, drawnNumbers, lpc, ldata, dpc, droom,
                    hrows, drows, memvars >>

\* io.to(room).emit('numberDrawn', number); io.to(room).emit('lockCards')
DrawBroadcast(room, number) ==
    RoomEmit(Connected, joined, room, "numberDrawn", number)
    \o RoomEmit(Connected, joined, room, "lockCards", "")

\* Lines 416-430: saveDrawnNumber, then either await markRoomAsDrawn or broadcast.
SqlDrawSaveDrawnNumber(d) ==
    /\ Free
    /\ wpc[d] = "saveDrawnNumber"
    /\ Len(GetDrawnNumbers(wdata[d].room, TRUE)) < MaxDrawn
    /\ \E ok \in DbOutcomes :
          drawnNumbers' =
              IF ok THEN Put(drawnNumbers, wdata[d].room,
                             Append(GetDrawnNumbers(wdata[d].room, TRUE), wdata[d].number))
              ELSE drawnNumbers
    /\ IF wdata[d].first
       THEN /\ wpc' = [wpc EXCEPT ![d] = "markRoomAsDrawn"]
            /\ Send(<< >>)
            /\ UNCHANGED wdata
       ELSE /\ Send(DrawBroadcast(wdata[d].room, wdata[d].number))
            /\ SqlDrawReturn(d)
    /\ UNCHANGED << conn, joined, users, rooms, lpc, ldata, dpc, droom,
                    hrows, drows, memvars >>

\* Lines 419-430: UPDATE rooms SET has_drawn = TRUE, then the broadcast.
SqlDrawMarkRoomAsDrawn(d) ==
    /\ Free
    /\ wpc[d] = "markRoomAsDrawn"
    /\ \E ok \in DbOutcomes :
          rooms' = IF ok /\ wdata[d].room \in DOMAIN rooms
                   THEN [rooms EXCEPT ![wdata[d].room].has_drawn = TRUE]
                   ELSE rooms
    /\ Send(DrawBroadcast(wdata[d].room, wdata[d].number))
    /\ SqlDrawReturn(d)
    /\ UNCHANGED << conn, joined, users, drawnNumbers, lpc, ldata, dpc, droom,
                    hrows, drows, memvars >>

\* ---- disconnect
SqlDisconnectReturn(c) ==
    /\ dpc' = [dpc EXCEPT ![c] = "idle"]
    /\ droom' = [droom EXCEPT ![c] = ""]
    /\ drows' = [drows EXCEPT ![c] = << >>]

\* getRoomNames(), lines 127-135: the names of the rooms with a user, none when
\* the query fails.
GetRoomNames(ok) == IF ok THEN { r \in DOMAIN rooms : rooms[r].user_count > 0 } ELSE {}

\* socket.on('requestRoomsList'), lines 389-392: the handler reads nothing
\* before its SELECT, so the event is taken where the SELECT executes.
SqlRequestRoomsList(c) ==
    /\ Free
    /\ conn[c] = "open"
    /\ \E ok \in DbOutcomes : Send(SocketEmit(c, "roomsListUpdate", GetRoomNames(ok)))
    /\ UNCHANGED << conn, joined, users, rooms, drawnNumbers, lpc, ldata, dpc, droom,
                    hrows, drows, wpc, wdata, memvars >>

\* socket.on('disconnect'), line 444: the handler awaits deleteUser.
SqlDisconnect(c) ==
    /\ ClientEvent
    /\ conn[c] = "open"
    /\ conn' = [conn EXCEPT ![c] = "closed"]
    /\ joined' = [joined EXCEPT ![c] = {}]
    /\ dpc' = [dpc EXCEPT ![c] = "selectUser"]
    /\ Send(<< >>)
    /\ UNCHANGED << users, rooms, drawnNumbers, lpc, ldata, droom,
                    hrows, drows, wpc, wdata, memvars >>

\* deleteUser, lines 235-237: its SELECT; no row or a failure ends the handler.
SqlDeleteUserSelect(c) ==
    /\ Free
    /\ dpc[c] = "selectUser"
    /\ \E ok \in DbOutcomes :
          IF ok /\ c \in DOMAIN users
          THEN /\ dpc' = [dpc EXCEPT ![c] = "deleteUser"]
               /\ droom' = [droom EXCEPT ![c] = users[c].room]
               /\ UNCHANGED drows
          ELSE SqlDisconnectReturn(c)
    /\ Send(<< >>)
    /\ UNCHANGED << conn, joined, users, rooms, drawnNumbers, lpc, ldata,
                    hrows, wpc, wdata, memvars >>

\* deleteUser, line 238: DELETE FROM users; a failure ends the handler.
SqlDeleteUserDelete(c) ==
    /\ Free
    /\ dpc[c] = "deleteUser"
    /\ \E ok \in DbOutcomes :
          IF ok
          THEN /\ users' = Delete(users, c)
               /\ dpc' = [dpc EXCEPT ![c] = "selectRoom"]
               /\ UNCHANGED << droom, drows >>
          ELSE /\ SqlDisconnectReturn(c)
               /\ UNCHANGED users
    /\ Send(<< >>)
    /\ UNCHANGED << conn, joined, rooms, drawnNumbers, lpc, ldata,
                    hrows, wpc, wdata, memvars >>

\* createOrUpdateRoom(user.room, -1), line 149: its SELECT.
SqlDeleteUserSelectRoom(c) ==
    /\ Free
    /\ dpc[c] = "selectRoom"
    /\ \E ok \in DbOutcomes :
          IF ok
          THEN /\ drows' = [drows EXCEPT ![c] = SqlRoomRows(droom[c], TRUE)]
               /\ dpc' = [dpc EXCEPT ![c] = "writeRoom"]
          ELSE /\ dpc' = [dpc EXCEPT ![c] = "countUsers"]
               /\ UNCHANGED drows
    /\ Send(<< >>)
    /\ UNCHANGED << conn, joined, users, rooms, drawnNumbers, lpc, ldata, droom,
                    hrows, wpc, wdata, memvars >>

\* createOrUpdateRoom(user.room, -1), lines 150-174: its INSERT or UPDATE.
SqlDeleteUserWriteRoom(c) ==
    /\ Free
    /\ dpc[c] = "writeRoom"
    /\ \E ok \in DbOutcomes :
          rooms' = CreateOrUpdateRoom(drows[c], droom[c], -1, ok)
    /\ dpc' = [dpc EXCEPT ![c] = "countUsers"]
    /\ Send(<< >>)
    /\ UNCHANGED << conn, joined, users, drawnNumbers, lpc, ldata, droom,
                    hrows, drows, wpc, wdata, memvars >>

\* deleteUser, lines 244-249: SELECT COUNT(*); an empty room goes on to deleteRoom.
SqlDeleteUserCount(c) ==
    /\ Free
    /\ dpc[c] = "countUsers"
    /\ \E ok \in DbOutcomes :
          IF ok /\ ActualCount(users, droom[c]) = 0
          THEN /\ dpc' = [dpc EXCEPT ![c] = "deleteRoom"]
               /\ UNCHANGED << droom, drows >>
          ELSE SqlDisconnectReturn(c)
    /\ Send(<< >>)
    /\ UNCHANGED << conn, joined, users, rooms, drawnNumbers, lpc, ldata,
                    hrows, wpc, wdata, memvars >>

\* deleteRoom, line 200: DELETE FROM rooms; a failure skips the second DELETE.
SqlDeleteRoom(c) ==
    /\ Free
    /\ dpc[c] = "deleteRoom"
    /\ \E ok \in DbOutcomes :
          IF ok
          THEN /\ rooms' = Delete(rooms, droom[c])
               /\ dpc' = [dpc EXCEPT ![c] = "deleteDrawn"]
               /\ UNCHANGED << droom, drows >>
          ELSE /\ SqlDisconnectReturn(c)
               /\ UNCHANGED rooms
    /\ Send(<< >>)
    /\ UNCHANGED << conn, joined, users, drawnNumbers, lpc, ldata,
                    hrows, wpc, wdata, memvars >>

\* deleteRoom, line 201: DELETE FROM drawn_numbers.
SqlDeleteRoomDrawn(c) ==
    /\ Free
    /\ dpc[c] = "deleteDrawn"
    /\ \E ok \in DbOutcomes :
          drawnNumbers' = IF ok THEN Delete(drawnNumbers, droom[c]) ELSE drawnNumbers
    /\ SqlDisconnectReturn(c)
    /\ Send(<< >>)
    /\ UNCHANGED << conn, joined, users, rooms, lpc, ldata,
                    hrows, wpc, wdata, memvars >>

\* ---- the periodic sweep, lines 515-534
\* What a step of the sweep leaves alone: every table but rooms, every handler.
sweepfixed == << conn, joined, users, drawnNumbers, lpc, ldata, dpc, droom,
                 hrows, drows, wpc, wdata, roomTimers, dbRooms, lrows, net,
                 crashed, lwrote >>
\* The rows of SELECT room_name FROM rooms, in the order of the primary key.
RoomOrder == << "r1", "r2" >>
RoomRowNames == SelectSeq(RoomOrder, LAMBDA r : r \in DOMAIN rooms)
\* The catch of line 531 ends the run.
SweepEnd(w) == sweeps' = [sweeps EXCEPT ![w] = NoSweep]
SweepTo(w, pc, todo, count) ==
    sweeps' = [sweeps EXCEPT ![w] = [pc |-> pc, todo |-> todo, count |-> count]]

\* setInterval(async () => ...), line 515: a tick starts a run whatever the
\* runs before it are doing; it awaits the SELECT of line 518.
SweepTick ==
    /\ ClientEvent
    /\ \E w \in Sweeps :
          /\ sweeps[w].pc = "idle"
          /\ \A v \in Sweeps : v < w => sweeps[v].pc # "idle"
          /\ SweepTo(w, "selectRooms", << >>, 0)
    /\ Send(<< >>)
    /\ UNCHANGED << rooms, sweepfixed >>

\* Line 518 executes; the loop awaits the COUNT of its first room (line 520),
\* or with no room the DELETE of line 526.
SweepSelectRooms(w) ==
    /\ Free
    /\ sweeps[w].pc = "selectRooms"
    /\ \E ok \in DbOutcomes :
          IF ~ok THEN SweepEnd(w)
          ELSE IF RoomRowNames = << >> THEN SweepTo(w, "delete", << >>, 0)
          ELSE SweepTo(w, "count", RoomRowNames, 0)
    /\ Send(<< >>)
    /\ UNCHANGED << rooms, sweepfixed >>

\* Line 520 executes: actualCount is read (line 521), the UPDATE is awaited.
SweepCount(w) ==
    /\ Free
    /\ sweeps[w].pc = "count"
    /\ \E ok \in DbOutcomes :
          IF ~ok THEN SweepEnd(w)
          ELSE SweepTo(w, "update", sweeps[w].todo,
                       ActualCount(users, Head(sweeps[w].todo)))
    /\ Send(<< >>)
    /\ UNCHANGED << rooms, sweepfixed >>

\* Line 522 executes: user_count is overwritten with the count read before;
\* the loop goes to its next room or to the DELETE of line 526.
SweepUpdate(w) ==
    /\ Free
    /\ sweeps[w].pc = "update"
    /\ \E ok \in DbOutcomes :
          IF ~ok THEN SweepEnd(w) /\ UNCHANGED rooms
          ELSE LET room == Head(sweeps[w].todo)
                   rest == Tail(sweeps[w].todo)
               IN  /\ rooms' = IF room \in DOMAIN rooms
                                THEN [rooms EXCEPT ![room].user_count = sweeps[w].count]
                                ELSE rooms
                   /\ IF rest = << >> THEN SweepTo(w, "delete", << >>, 0)
                      ELSE SweepTo(w, "count", rest, 0)
    /\ Send(<< >>)
    /\ UNCHANGED sweepfixed

\* Line 526 executes: DELETE FROM rooms WHERE user_count <= 0; updateRoomsList
\* (line 529) awaits getRoomNames.
SweepDeleteEmpty(w) ==
    /\ Free
    /\ sweeps[w].pc = "delete"
    /\ \E ok \in DbOutcomes :
          IF ~ok THEN SweepEnd(w) /\ UNCHANGED rooms
          ELSE /\ rooms' = [r \in { q \in DOMAIN rooms : rooms[q].user_count > 0 } |-> rooms[r]]
               /\ SweepTo(w, "list", << >>, 0)
    /\ Send(<< >>)
    /\ UNCHANGED sweepfixed

\* Lines 529 and 462-466: the room names are read and broadcast; the run ends.
SweepUpdateRoomsList(w) ==
    /\ Free
    /\ sweeps[w].pc = "list"
    /\ \E ok \in DbOutcomes : Send(IoEmit(Connected, "roomsListUpdate", GetRoomNames(ok)))
    /\ SweepEnd(w)
    /\ UNCHANGED << rooms, sweepfixed >>

SqlNext ==
    \/ \E c \in Conns : SqlConnect(c)
    \/ \E c \in Conns : \E data \in LoginInputs(c) : SqlLogin(c, data)
    \/ \E c \in Conns : SqlLoginGetRoom(c)
    \/ \E c \in Conns : SqlLoginGetRoomAdmins(c)
    \/ \E c \in Conns : SqlLoginSelectRoom(c)
    \/ \E c \in Conns : SqlLoginWriteRoom(c)
    \/ \E c \in Conns : SqlLoginSaveUser(c)
    \/ \E c \in Conns, number \in DrawInputs : SqlDrawNumber(c, number)
    \/ \E d \in Draws : SqlDrawGetUser(d)
    \/ \E d \in Draws : SqlDrawGetDrawnNumbers(d)
    \/ \E d \in Draws : SqlDrawSaveDrawnNumber(d)
    \/ \E d \in Draws : SqlDrawMarkRoomAsDrawn(d)
    \/ \E c \in Conns : SqlRequestRoomsList(c)
    \/ \E c \in Conns : SqlDisconnect(c)
    \/ \E c \in Conns : SqlDeleteUserSelect(c)
    \/ \E c \in Conns : SqlDeleteUserDelete(c)
    \/ \E c \in Conns : SqlDeleteUserSelectRoom(c)
    \/ \E c \in Conns : SqlDeleteUserWriteRoom(c)
    \/ \E c \in Conns : SqlDeleteUserCount(c)
    \/ \E c \in Conns : SqlDeleteRoom(c)
    \/ \E c \in Conns : SqlDeleteRoomDrawn(c)
    \/ SweepTick
    \/ \E w \in Sweeps : SweepSelectRooms(w)
    \/ \E w \in Sweeps : SweepCount(w)
    \/ \E w \in Sweeps : SweepUpdate(w)
    \/ \E w \in Sweeps : SweepDeleteEmpty(w)
    \/ \E w \in Sweeps : SweepUpdateRoomsList(w)

SqlSpec == InitSql /\ [][SqlNext]_vars

\* ====================================================== the in-memory variant
\* MemSpec models src/unnamed/part_001: users, rooms and drawnNumbers live in
\* process memory, there is no database and no handler awaits, so every event
\* is one action.  Runs keep what each handler emits.
asyncvars == << roomTimers, dbRooms, lpc, ldata, lrows, dpc, droom, net >>

InitMem ==
    /\ conn = [c \in Conns |-> "new"]
    /\ joined = [c \in Conns |-> {}]
    /\ users = EmptyObj
    /\ rooms = EmptyObj
    /\ drawnNumbers = EmptyObj
    /\ roomTimers = {}
    /\ dbRooms = {}
    /\ lpc = [c \in Conns |-> "idle"]
    /\ ldata = [c \in Conns |-> NoData]
    /\ lrows = [c \in Conns |-> FALSE]
    /\ dpc = [c \in Conns |-> "idle"]
    /\ droom = [c \in Conns |-> ""]
    /\ sent = << >>
    /\ record = TRUE
    /\ budget = MaxMemEvents
    /\ hrows = [c \in Conns |-> << >>]
    /\ drows = [c \in Conns |-> << >>]
    /\ wpc = [d \in Draws |-> "idle"]
    /\ wdata = [d \in Draws |-> NoDraw]
    /\ net = [r \in RoomNames |-> 0]
    /\ crashed = FALSE
    /\ events = 0
    /\ lwrote = [c \in Conns |-> FALSE]
    /\ sweeps = [w \in Sweeps |-> NoSweep]

\* io.on('connection'): the handlers are registered, nothing is emitted.
MemConnect(c) ==
    /\ ~crashed
    /\ UNCHANGED << sqlvars, asyncvars >>
    /\ Free
    /\ conn[c] = "new"
    /\ \A d \in Conns : <<d, c>> \in Earlier => conn[d] # "new"
    /\ conn' = [conn EXCEPT ![c] = "open"]
    /\ Send(<< >>)
    /\ UNCHANGED << joined, users, rooms, drawnNumbers, crashed >>

\* socket.on('login'), lines 36-66: no test that the room exists.
MemLogin(c, data) ==
    /\ ~crashed
    /\ UNCHANGED << sqlvars, asyncvars >>
    /\ conn[c] = "open"
    /\ IF \/ ~Truthy(data.username) \/ ~Truthy(data.room)
          \/ ~IsString(data.username) \/ ~IsString(data.room)
       THEN /\ Send(SocketEmit(c, "loginError", "notAString"))
            /\ Free /\ UNCHANGED << joined, users, rooms, drawnNumbers >>
       ELSE IF Trim(data.username) = "" \/ Trim(data.room) = ""
       THEN /\ Send(SocketEmit(c, "loginError", "blank"))
            /\ Free /\ UNCHANGED << joined, users, rooms, drawnNumbers >>
       ELSE /\ ClientEvent
            /\ users' = Put(users, c, Session(data))
            /\ joined' = [joined EXCEPT ![c] = @ \cup {data.room}]
            /\ drawnNumbers' = IF data.room \in DOMAIN drawnNumbers THEN drawnNumbers
                               ELSE Put(drawnNumbers, data.room, << >>)
            /\ rooms' = Put(rooms, data.room, OrZero(rooms, data.room) + 1)
            /\ Send(UpdateRoomsList(Connected, rooms')
                    \o SocketEmit(c, "loginSuccess",
                                  [room |-> data.room, isAdmin |-> data.isAdmin])
                    \o UpdateAdminInfo(Connected, users', data.room))
    /\ UNCHANGED << conn, crashed >>

\* Lines 160-172: the buckets 0..6 of a room.
MemLineCounts(us, room) ==
    [ i \in 0..MemMaxLine |->
        NamesBag(us, { id \in PlayerIds(us, room) : LineCountOf(us[id]) = i }) ]

\* updateAdminLineCounts(room), lines 159-180
MemUpdateAdminLineCounts(open, us, room) ==
    LET to == AdminIds(us, room) \cap open
    IN  IF to = {} THEN << >>
        ELSE << Msg(to, "lineCountUpdate", MemLineCounts(us, room)) >>

\* socket.on('drawNumber'), lines 69-97
MemDrawNumber(c, number) ==
    /\ ~crashed
    /\ UNCHANGED << sqlvars, asyncvars >>
    /\ conn[c] = "open"
    /\ IF c \notin DOMAIN users \/ ~users[c].isAdmin
       THEN /\ Send(SocketEmit(c, "errorMessage", "notAdmin"))
            /\ Free /\ UNCHANGED << drawnNumbers, crashed >>
       ELSE IF InvalidNumber(number)
       THEN /\ Send(SocketEmit(c, "errorMessage", "invalidNumber"))
            /\ Free /\ UNCHANGED << drawnNumbers, crashed >>
       ELSE IF users[c].room \notin DOMAIN drawnNumbers
       THEN /\ crashed' = TRUE
            /\ Send(<< >>)
            /\ Free /\ UNCHANGED drawnNumbers
       ELSE IF Includes(drawnNumbers[users[c].room], number)
       THEN /\ Send(SocketEmit(c, "errorMessage", "alreadyDrawn"))
            /\ Free /\ UNCHANGED << drawnNumbers, crashed >>
       ELSE LET room == users[c].room
            IN  /\ Len(drawnNumbers[room]) < MaxDrawn
                /\ ClientEvent
                /\ drawnNumbers' = [drawnNumbers EXCEPT ![room] = Append(@, number)]
                /\ Send(RoomEmit(Connected, joined, room, "numberDrawn", number)
                        \o RoomEmit(Connected, joined, room, "lockCards", "")
                        \o UpdateAdminInfo(Connected, users, room)
                        \o MemUpdateAdminLineCounts(Connected, users, room))
                /\ UNCHANGED crashed
    /\ UNCHANGED << conn, joined, users, rooms >>

\* socket.on('updateLineCount'), lines 100-107
MemUpdateLineCount(c, lineCount) ==
    /\ ~crashed
    /\ UNCHANGED << sqlvars, asyncvars >>
    /\ conn[c] = "open"
    /\ IF c \in DOMAIN users /\ ~users[c].isAdmin
       THEN /\ ClientEvent
            /\ users' = [users EXCEPT ![c] = WithLineCount(@, lineCount)]
            /\ Send(MemUpdateAdminLineCounts(Connected, users', users[c].room))
       ELSE /\ Send(<< >>)
            /\ Free /\ UNCHANGED users
    /\ UNCHANGED << conn, joined, rooms, drawnNumbers, crashed >>

\* socket.on('disconnect'), lines 110-128: the room's entry in rooms goes with
\* its last member, its entry in drawnNumbers stays.
MemDisconnect(c) ==
    /\ ~crashed
    /\ UNCHANGED << sqlvars, asyncvars >>
    /\ ClientEvent
    /\ conn[c] = "open"
    /\ conn' = [conn EXCEPT ![c] = "closed"]
    /\ joined' = [joined EXCEPT ![c] = {}]
    /\ IF c \notin DOMAIN users
       THEN /\ Send(<< >>)
            /\ UNCHANGED << users, rooms >>
       ELSE LET room == users[c].room
            IN  /\ users' = Delete(users, c)
                /\ rooms' = IF OrZero(rooms, room) = 0 THEN rooms
                            ELSE IF rooms[room] - 1 <= 0 THEN Delete(rooms, room)
                            ELSE [rooms EXCEPT ![room] = @ - 1]
                /\ Send(UpdateRoomsList(Connected', rooms')
                        \o UpdateAdminInfo(Connected', users', room)
                        \o MemUpdateAdminLineCounts(Connected', users', room))
    /\ UNCHANGED << drawnNumbers, crashed >>

MemNext ==
    \/ \E c \in Conns : MemConnect(c)
    \/ \E c \in Conns : \E data \in LoginInputs(c) : MemLogin(c, data)
    \/ \E c \in Conns : \E number \in DrawInputs : MemDrawNumber(c, number)
    \/ \E c \in Conns : \E lineCount \in MemLineInputs : MemUpdateLineCount(c, lineCount)
    \/ \E c \in Conns : MemDisconnect(c)

MemSpec == InitMem /\ [][MemNext]_vars

\* ========================================================= the sqlite3 variant
\* LiteSpec models the connection, login and disconnect handlers and the
\* periodic sweep of the sqlite3 server in src/unnamed/part_002 (lines
\* 582-1083): users and rooms
\* are the tables users (socket_id -> row) and rooms (room_name -> user_count),
\* every statement is awaited and may be rejected, and each handler runs in a
\* try block whose catch ends it.  An action is the execution of the awaited
\* statement together with the handler's code up to its next await.  roomTimers
\* is never written in this variant, so the branches that test it are not
\* taken.  The SELECTs of one broadcast helper are taken together.
litefixed == << drawnNumbers, roomTimers, dbRooms, lrows, net, crashed,
                hrows, drows, wpc, wdata, sweeps >>

InitLite ==
    /\ conn = [c \in Conns |-> "new"]
    /\ joined = [c \in Conns |-> {}]
    /\ users = EmptyObj
    /\ rooms = EmptyObj
    /\ drawnNumbers = EmptyObj
    /\ roomTimers = {}
    /\ dbRooms = {}
    /\ lpc = [c \in Conns |-> "idle"]
    /\ ldata = [c \in Conns |-> NoData]
    /\ lrows = [c \in Conns |-> FALSE]
    /\ dpc = [c \in Conns |-> "idle"]
    /\ droom = [c \in Conns |-> ""]
    /\ sent = << >>
    /\ record = TRUE
    /\ budget = MaxLiteEvents
    /\ hrows = [c \in Conns |-> << >>]
    /\ drows = [c \in Conns |-> << >>]
    /\ wpc = [d \in Draws |-> "idle"]
    /\ wdata = [d \in Draws |-> NoDraw]
    /\ net = [r \in RoomNames |-> 0]
    /\ crashed = FALSE
    /\ events = 0
    /\ lwrote = [c \in Conns |-> FALSE]
    /\ sweeps = [w \in Sweeps |-> NoSweep]

\* getRoomsList(), lines 973-984: the room names, none when the query fails.
GetRoomsList(ok) == IF ok THEN DOMAIN rooms ELSE {}

\* io.on('connection'), lines 706-714
LiteConnect(c) ==
    /\ Free
    /\ conn[c] = "new"
    /\ \A d \in Conns : <<d, c>> \in Earlier => conn[d] # "new"
    /\ conn' = [conn EXCEPT ![c] = "open"]
    /\ \E ok \in DbOutcomes : Send(SocketEmit(c, "roomsListUpdate", GetRoomsList(ok)))
    /\ UNCHANGED << joined, users, rooms, lpc, ldata, dpc, droom, lwrote, litefixed >>

\* The login handler returns.
LiteLoginReturn(c) ==
    /\ lpc' = [lpc EXCEPT ![c] = "idle"]
    /\ ldata' = [ldata EXCEPT ![c] = NoData]
    /\ lwrote' = [lwrote EXCEPT ![c] = FALSE]

\* Lines 785-788: the catch of the login handler.
LiteLoginCatch(c) ==
    /\ Send(SocketEmit(c, "loginError", "failed"))
    /\ LiteLoginReturn(c)

\* socket.on('login'), lines 717-733/752: validate, then await the SELECT of the room.
LiteLogin(c, data) ==
    /\ conn[c] = "open"
    /\ lpc[c] = "idle"
    /\ IF \/ ~Truthy(data.username) \/ ~Truthy(data.room)
          \/ ~IsString(data.username) \/ ~IsString(data.room)
       THEN /\ Send(SocketEmit(c, "loginError", "notAString"))
            /\ Free /\ UNCHANGED << lpc, ldata >>
       ELSE IF Trim(data.username) = "" \/ Trim(data.room) = ""
       THEN /\ Send(SocketEmit(c, "loginError", "blank"))
            /\ Free /\ UNCHANGED << lpc, ldata >>
       ELSE /\ ClientEvent
            /\ lpc' = [lpc EXCEPT ![c] = "roomExists"]
            /\ ldata' = [ldata EXCEPT ![c] = data]
            /\ Send(<< >>)
    /\ UNCHANGED << conn, joined, users, rooms, dpc, droom, lwrote, litefixed >>

\* Lines 733-757: SELECT * FROM rooms WHERE room_name = ?
LiteLoginRoomExists(c) ==
    /\ Free
    /\ lpc[c] = "roomExists"
    /\ \E ok \in DbOutcomes :
          IF ~ok THEN LiteLoginCatch(c)
          ELSE IF ldata[c].isAdmin
          THEN /\ lpc' = [lpc EXCEPT ![c] = IF ldata[c].room \in DOMAIN rooms
                                            THEN "updateCount" ELSE "insertRoom"]
               /\ Send(<< >>)
               /\ UNCHANGED << ldata, lwrote >>
          ELSE IF ldata[c].room \notin DOMAIN rooms
          THEN /\ Send(SocketEmit(c, "loginError", "roomNotFound"))
               /\ LiteLoginReturn(c)
          ELSE /\ lpc' = [lpc EXCEPT ![c] = "adminExists"]
               /\ Send(<< >>)
               /\ UNCHANGED << ldata, lwrote >>
    /\ UNCHANGED << conn, joined, users, rooms, dpc, droom, litefixed >>

\* Lines 741-749: SELECT * FROM users WHERE room = ? AND is_admin = 1
LiteLoginAdminExists(c) ==
    /\ Free
    /\ lpc[c] = "adminExists"
    /\ \E ok \in DbOutcomes :
          IF ~ok THEN LiteLoginCatch(c)
          ELSE IF AdminIds(users, ldata[c].room) = {}
          THEN /\ Send(SocketEmit(c, "loginError", "noAdmin"))
               /\ LiteLoginReturn(c)
          ELSE /\ lpc' = [lpc EXCEPT ![c] = "updateCount"]
               /\ Send(<< >>)
               /\ UNCHANGED << ldata, lwrote >>
    /\ UNCHANGED << conn, joined, users, rooms, dpc, droom, litefixed >>

\* Line 755: INSERT INTO rooms (room_name, user_count) VALUES (?, 0); room_name
\* is the primary key.
LiteLoginInsertRoom(c) ==
    /\ Free
    /\ lpc[c] = "insertRoom"
    /\ \E ok \in DbOutcomes :
          IF ~ok \/ ldata[c].room \in DOMAIN rooms
          THEN LiteLoginCatch(c) /\ UNCHANGED rooms
          ELSE /\ rooms' = Put(rooms, ldata[c].room, 0)
               /\ lwrote' = [lwrote EXCEPT ![c] = TRUE]
               /\ lpc' = [lpc EXCEPT ![c] = "updateCount"]
               /\ Send(<< >>)
               /\ UNCHANGED ldata
    /\ UNCHANGED << conn, joined, users, dpc, droom, litefixed >>

\* Lines 759-763: UPDATE rooms SET user_count = user_count + 1 WHERE room_name = ?
LiteLoginUpdateCount(c) ==
    /\ Free
    /\ lpc[c] = "updateCount"
    /\ \E ok \in DbOutcomes :
          IF ~ok THEN LiteLoginCatch(c) /\ UNCHANGED rooms
          ELSE /\ rooms' = IF ldata[c].room \in DOMAIN rooms
                           THEN [rooms EXCEPT ![ldata[c].room] = @ + 1] ELSE rooms
               /\ lwrote' = [lwrote EXCEPT ![c] = @ \/ ldata[c].room \in DOMAIN rooms]
               /\ lpc' = [lpc EXCEPT ![c] = "insertUser"]
               /\ Send(<< >>)
               /\ UNCHANGED ldata
    /\ UNCHANGED << conn, joined, users, dpc, droom, litefixed >>

\* Lines 765-782: INSERT INTO users (socket_id, ...); socket_id is the primary
\* key.  Then socket.join and await updateRoomsList().
LiteLoginInsertUser(c) ==
    /\ Free
    /\ lpc[c] = "insertUser"
    /\ \E ok \in DbOutcomes :
          IF ~ok \/ c \in DOMAIN users
          THEN LiteLoginCatch(c) /\ UNCHANGED << users, joined >>
          ELSE /\ users' = Put(users, c, WithLineCount(Session(ldata[c]), 0))
               /\ joined' = [joined EXCEPT ![c] = @ \cup {ldata[c].room}]
               /\ lwrote' = [lwrote EXCEPT ![c] = TRUE]
               /\ lpc' = [lpc EXCEPT ![c] = "updateRoomsList"]
               /\ Send(<< >>)
               /\ UNCHANGED ldata
    /\ UNCHANGED << conn, rooms, dpc, droom, litefixed >>

\* Lines 782-784: updateRoomsList() done, loginSuccess, await updateAdminInfo(room).
LiteLoginUpdateRoomsList(c) ==
    /\ Free
    /\ lpc[c] = "updateRoomsList"
    /\ \E ok \in DbOutcomes :
          Send(IoEmit(Connected, "roomsListUpdate", GetRoomsList(ok))
               \o SocketEmit(c, "loginSuccess",
                             [room |-> ldata[c].room, isAdmin |-> ldata[c].isAdmin]))
    /\ lpc' = [lpc EXCEPT ![c] = "updateAdminInfo"]
    /\ UNCHANGED << conn, joined, users, rooms, ldata, dpc, droom, lwrote, litefixed >>

\* Line 784 and updateAdminInfo, lines 998-1027: a failure is logged.
LiteLoginUpdateAdminInfo(c) ==
    /\ Free
    /\ lpc[c] = "updateAdminInfo"
    /\ \E ok \in DbOutcomes :
          Send(IF ok THEN UpdateAdminInfo(Connected, users, ldata[c].room) ELSE << >>)
    /\ LiteLoginReturn(c)
    /\ UNCHANGED << conn, joined, users, rooms, dpc, droom, litefixed >>

\* The disconnect handler returns, also from its catch (lines 928-930).
LiteDisconnectReturn(c) ==
    /\ dpc' = [dpc EXCEPT ![c] = "idle"]
    /\ droom' = [droom EXCEPT ![c] = ""]

\* socket.on('disconnect'), lines 875-879: await the SELECT of the user.
LiteDisconnect(c) ==
    /\ ClientEvent
    /\ conn[c] = "open"
    /\ conn' = [conn EXCEPT ![c] = "closed"]
    /\ joined' = [joined EXCEPT ![c] = {}]
    /\ dpc' = [dpc EXCEPT ![c] = "selectUser"]
    /\ Send(<< >>)
    /\ UNCHANGED << users, rooms, lpc, ldata, droom, lwrote, litefixed >>

\* One awaited statement of the disconnect handler, lines 877-920, with the
\* await that follows it.
LiteDisconnectStatement(c) ==
    /\ Free
    /\ dpc[c] \in {"selectUser", "deleteUser", "updateCount", "selectCount",
                   "deleteRoom", "deleteDrawn"}
    /\ Send(<< >>)
    /\ \E ok \in DbOutcomes :
          IF ~ok
          THEN LiteDisconnectReturn(c) /\ UNCHANGED << users, rooms >>
          ELSE CASE dpc[c] = "selectUser" ->
                      /\ IF c \in DOMAIN users
                         THEN /\ dpc' = [dpc EXCEPT ![c] = "deleteUser"]
                              /\ droom' = [droom EXCEPT ![c] = users[c].room]
                         ELSE LiteDisconnectReturn(c)
                      /\ UNCHANGED << users, rooms >>
                 [] dpc[c] = "deleteUser" ->
                      /\ users' = Delete(users, c)
                      /\ dpc' = [dpc EXCEPT ![c] = "updateCount"]
                      /\ UNCHANGED << rooms, droom >>
                 [] dpc[c] = "updateCount" ->
                      /\ rooms' = IF droom[c] \in DOMAIN rooms
                                  THEN [rooms EXCEPT ![droom[c]] = @ - 1] ELSE rooms
                      /\ dpc' = [dpc EXCEPT ![c] = "selectCount"]
                      /\ UNCHANGED << users, droom >>
                 [] dpc[c] = "selectCount" ->
                      /\ dpc' = [dpc EXCEPT ![c] =
                                    IF droom[c] \in DOMAIN rooms /\ rooms[droom[c]] <= 0
                                    THEN "deleteRoom" ELSE "broadcast"]
                      /\ UNCHANGED << users, rooms, droom >>
                 [] dpc[c] = "deleteRoom" ->
                      /\ rooms' = Delete(rooms, droom[c])
                      /\ dpc' = [dpc EXCEPT ![c] = "deleteDrawn"]
                      /\ UNCHANGED << users, droom >>
                 [] dpc[c] = "deleteDrawn" ->
                      /\ dpc' = [dpc EXCEPT ![c] = "broadcast"]
                      /\ UNCHANGED << users, rooms, droom >>
    /\ UNCHANGED << conn, joined, lpc, ldata, lwrote, litefixed >>

\* Lines 922-924: room list to all, players and line counts to the room's
\* admins; a helper whose query fails emits nothing, the room list then is empty.
LiteDisconnectBroadcast(c) ==
    /\ Free
    /\ dpc[c] = "broadcast"
    /\ \E ok \in DbOutcomes :
          Send(IoEmit(Connected, "roomsListUpdate", GetRoomsList(ok))
               \o (IF ok THEN UpdateAdminInfo(Connected, users, droom[c])
                             \o UpdateAdminLineCounts(Connected, users, droom[c])
                    ELSE << >>))
    /\ LiteDisconnectReturn(c)
    /\ UNCHANGED << conn, joined, users, rooms, lpc, ldata, lwrote, litefixed >>

\* ---- the periodic sweep of the sqlite3 server, lines 935-960
\* What a step of the sweep leaves alone: table users and every handler.
litesweepfixed == << conn, joined, users, drawnNumbers, lpc, ldata, dpc, droom,
                     hrows, drows, wpc, wdata, roomTimers, dbRooms, lrows, net,
                     crashed, lwrote >>

\* setInterval(async () => ...), line 935: a tick starts a run whatever the
\* runs before it are doing; it awaits the SELECT of line 938.
LiteSweepTick ==
    /\ ClientEvent
    /\ \E w \in Sweeps :
          /\ sweeps[w].pc = "idle"
          /\ \A v \in Sweeps : v < w => sweeps[v].pc # "idle"
          /\ SweepTo(w, "selectRooms", << >>, 0)
    /\ Send(<< >>)
    /\ UNCHANGED << rooms, litesweepfixed >>

\* One awaited statement of a run, lines 938-956, with the await that follows
\* it: the SELECT of the room names, the COUNT of a room's users, the UPDATE of
\* its user_count with the count read before, the SELECT of updateRoomsList
\* and its broadcast. A rejected statement of lines 938-953 ends the run in
\* the catch of line 957.
LiteSweepStatement(w) ==
    /\ Free
    /\ sweeps[w].pc # "idle"
    /\ \E ok \in DbOutcomes :
          CASE sweeps[w].pc = "selectRooms" ->
                  /\ IF ~ok THEN SweepEnd(w)
                     ELSE IF RoomRowNames = << >> THEN SweepTo(w, "list", << >>, 0)
                     ELSE SweepTo(w, "count", RoomRowNames, 0)
                  /\ Send(<< >>)
                  /\ UNCHANGED rooms
            [] sweeps[w].pc = "count" ->
                  /\ IF ~ok THEN SweepEnd(w)
                     ELSE SweepTo(w, "update", sweeps[w].todo,
                                  ActualCount(users, Head(sweeps[w].todo)))
                  /\ Send(<< >>)
                  /\ UNCHANGED rooms
            [] sweeps[w].pc = "update" ->
                  /\ IF ~ok THEN SweepEnd(w) /\ UNCHANGED rooms
                     ELSE LET room == Head(sweeps[w].todo)
                              rest == Tail(sweeps[w].todo)
                          IN  /\ rooms' = IF room \in DOMAIN rooms
                                           THEN [rooms EXCEPT ![room] = sweeps[w].count]
                                           ELSE rooms
                              /\ IF rest = << >> THEN SweepTo(w, "list", << >>, 0)
                                 ELSE SweepTo(w, "count", rest, 0)
                  /\ Send(<< >>)
            [] sweeps[w].pc = "list" ->
                  /\ Send(IoEmit(Connected, "roomsListUpdate", GetRoomsList(ok)))
                  /\ SweepEnd(w)
                  /\ UNCHANGED rooms
    /\ UNCHANGED litesweepfixed

LiteNext ==
    \/ \E c \in Conns : LiteConnect(c)
    \/ \E c \in Conns : \E data \in LoginInputs(c) : LiteLogin(c, data)
    \/ \E c \in Conns : LiteLoginRoomExists(c)
    \/ \E c \in Conns : LiteLoginAdminExists(c)
    \/ \E c \in Conns : LiteLoginInsertRoom(c)
    \/ \E c \in Conns : LiteLoginUpdateCount(c)
    \/ \E c \in Conns : LiteLoginInsertUser(c)
    \/ \E c \in Conns : LiteLoginUpdateRoomsList(c)
    \/ \E c \in Conns : LiteLoginUpdateAdminInfo(c)
    \/ \E c \in Conns : LiteDisconnect(c)
    \/ \E c \in Conns : LiteDisconnectStatement(c)
    \/ \E c \in Conns : LiteDisconnectBroadcast(c)
    \/ LiteSweepTick
    \/ \E w \in Sweeps : LiteSweepStatement(w)

LiteSpec == InitLite /\ [][LiteNext]_vars

\* --------------------------------------------------------- one whole game
\* One game of src/server.js, its events sent one after the other, each after
\* the handlers of the one before have returned: an admin opens a room, a
\* player joins it, the admin draws a number and draws it again, the player
\* leaves, the admin leaves. A third client may connect, and every client may
\* ask for the room list, at any time. Every database statement may fail as
\* before.
Caller == "c1"
Guest == "c2"
GameRoom == "r1"
GameNumber == JsNum(7)
CallerLogin ==
    [username |-> UsernameOf[Caller], room |-> GameRoom, isAdmin |-> TRUE,
     adminSecret |-> SecretOf[Caller]]
GuestLogin ==
    [username |-> UsernameOf[Guest], room |-> GameRoom, isAdmin |-> FALSE,
     adminSecret |-> Undefined]

\* No handler is suspended at an await.
Quiet == \A c \in Conns : lpc[c] = "idle" /\ dpc[c] = "idle"

InitGame ==
    /\ conn = [c \in Conns |-> "new"]
    /\ joined = [c \in Conns |-> {}]
    /\ users = EmptyObj
    /\ rooms = EmptyObj
    /\ drawnNumbers = EmptyObj
    /\ roomTimers = {}
    /\ dbRooms = {}
    /\ lpc = [c \in Conns |-> "idle"]
    /\ ldata = [c \in Conns |-> NoData]
    /\ lrows = [c \in Conns |-> FALSE]
    /\ dpc = [c \in Conns |-> "idle"]
    /\ droom = [c \in Conns |-> ""]
    /\ sent = << >>
    /\ record = TRUE
    /\ budget = MaxGameEvents
    /\ hrows = [c \in Conns |-> << >>]
    /\ drows = [c \in Conns |-> << >>]
    /\ wpc = [d \in Draws |-> "idle"]
    /\ wdata = [d \in Draws |-> NoDraw]
    /\ net = [r \in RoomNames |-> 0]
    /\ crashed = FALSE
    /\ events = 0
    /\ lwrote = [c \in Conns |-> FALSE]
    /\ sweeps = [w \in Sweeps |-> NoSweep]

GameNext ==
    \/ \E c \in Conns : Connect(c)
    \/ \E c \in Conns : RequestRoomsList(c)
    \/ events = 0 /\ Login(Caller, CallerLogin)
    \/ events = 1 /\ Quiet /\ Login(Guest, GuestLogin)
    \/ LoginCreateRoom(Caller)
    \/ LoginAdmitAdmin(Caller)
    \/ LoginRoomNotFound(Guest)
    \/ LoginAdmitPlayer(Guest)
    \/ LoginFinishPlayer(Guest)
    \/ events \in {2, 3} /\ Quiet /\ DrawNumber(Caller, GameNumber)
    \/ events = 3 /\ Quiet /\ Disconnect(Guest)
    \/ events = 4 /\ Quiet /\ Disconnect(Caller)
    \/ DeleteRoomFromDB(Caller)
    \/ DisconnectResume(Caller)

GameSpec == InitGame /\ [][GameNext]_vars

\* ================================================================== claims
\* The step in which the login handler of socket c admits it: only Admit moves
\* both the handler and the joins of a room.
AdmitStep(c) == lpc'[c] # lpc[c] /\ net' # net

\* C1: in every reachable state each room's stored count equals the number of
\* sessions whose room is that room.
C1_CountIsSessions ==
    \A room \in DOMAIN rooms : rooms[room] = ActualCount(users, room)

\* C2: a room's count equals its joins minus its leaves, right after every
\* event and after every sweep.
C2_CountIsJoinsMinusLeaves ==
    \A room \in DOMAIN rooms : rooms[room] = net[room]

\* C4: no admin session and no room comes from a login whose adminSecret is not
\* the passphrase: every admin session belongs to a client that sent the
\* passphrase.
C4_AdminSessionsKnowSecret ==
    \A c \in DOMAIN users : users[c].isAdmin => SecretOf[c] = AdminSecret

C6_PlayerNeedsAdminOnline ==
    [][\A c \in Conns :
        (AdmitStep(c) /\ ~ldata[c].isAdmin) => AdminIds(users, ldata[c].room) # {}
      ]_vars

\* C7: a player's login to a room absent from rooms admits nobody and leaves
\* rooms and drawnNumbers as they are.
C7_PlayerNeedsRoomInRegistry ==
    [][\A c \in Conns :
        (lpc[c] # "idle" /\ ~ldata[c].isAdmin /\ ldata[c].room \notin DOMAIN rooms) =>
            /\ c \in DOMAIN users' => c \in DOMAIN users /\ users'[c] = users[c]
            /\ lpc'[c] # lpc[c] => rooms' = rooms /\ drawnNumbers' = drawnNumbers
      ]_vars

\* C9: a login on a socket that has a session admits nothing: the session and
\* every room's count stay as they are.
C9_SecondLoginRejected ==
    [][\A c \in Conns :
        (c \in DOMAIN users /\ lpc[c] # "idle" /\ lpc'[c] # lpc[c]) =>
            /\ c \in DOMAIN users' /\ users'[c] = users[c]
            /\ rooms' = rooms
      ]_vars

\* C10: while a socket has a session, the session's room and role stay the same.
C10_SessionRoomNeverChanges ==
    [][\A c \in DOMAIN users \cap DOMAIN users' :
        /\ users'[c].room = users[c].room
        /\ users'[c].isAdmin = users[c].isAdmin
      ]_vars

\* The loginSuccess and loginError messages of msgs that reach a socket of `to`.
LoginReplies(msgs, to) ==
    { i \in 1..Len(msgs) :
        msgs[i].ev \in {"loginSuccess", "loginError"} /\ msgs[i].to \cap to # {} }

\* What a segment of the login handler of socket c has sent: one reply to c
\* when the handler returns, none while it awaits, and never one to another socket.
OneReply(c) ==
    /\ Cardinality(LoginReplies(sent', {c})) = (IF lpc'[c] = "idle" THEN 1 ELSE 0)
    /\ LoginReplies(sent', Conns \ {c}) = {}

\* C8: every login event emits exactly one of loginSuccess and loginError to
\* its caller and neither to another socket: a login refused by the validation
\* replies at once, and an accepted one replies in the segment of its handler
\* that returns and in no other.
C8_ExactlyOneLoginReply ==
    [][\A c \in Conns :
        /\ \A data \in InvalidLogins : Login(c, data) => OneReply(c)
        /\ lpc'[c] # lpc[c] => OneReply(c)
      ]_vars

\* C8 case: a player's login has just succeeded after its await while another
\* socket, the room's admin, is connected; the reply went to the player alone.
C8_PlayerRepliedBesideAdmin ==
    \E c \in Conns, i \in 1..Len(sent) :
        /\ sent[i].ev = "loginSuccess" /\ sent[i].to = {c} /\ ~sent[i].arg.isAdmin
        /\ \E j \in 1..Len(sent) : sent[j].ev = "playersUpdate" /\ c \notin sent[j].to

\* C3: no room's drawn list holds a number twice (a second draw of a number
\* is refused), also with two draws of one number in flight at once.
C3_NoDuplicateDraw ==
    \A room \in DOMAIN drawnNumbers :
        \A i, j \in 1..Len(drawnNumbers[room]) :
            i # j => drawnNumbers[room][i] # drawnNumbers[room][j]

\* C11: a drawNumber from a socket that has no session, or whose session is a
\* player's, sends errorMessage (only the admin may draw) to that socket alone:
\* nothing else is emitted to anyone and no drawn list changes.
C11_NotAdminDrawRefused ==
    [][\A c \in Conns :
         (c \notin DOMAIN users \/ ~users[c].isAdmin) =>
            \A number \in DrawInputs :
                DrawNumber(c, number) =>
                    /\ sent' = << Msg({c}, "errorMessage", "notAdmin") >>
                    /\ drawnNumbers' = drawnNumbers]_vars

\* A player was refused a draw while an admin of the room was connected.
C11_PlayerDrawRefused ==
    \E c \in DOMAIN users :
        /\ ~users[c].isAdmin
        /\ sent = << Msg({c}, "errorMessage", "notAdmin") >>
        /\ AdminIds(users, users[c].room) \cap Connected # {}
        /\ drawnNumbers[users[c].room] = << >>

\* C12: a drawNumber of an admin that is refused because the number is not a
\* number from 1 to 36, or because the room's list already holds it, sends
\* errorMessage to that socket alone (no numberDrawn, no lockCards, nothing
\* to anyone else) and leaves every drawn list as it was.  src/server.js keeps
\* no started flag: the drawn list is all a draw can change.
C12_RejectedDrawChangesNothing ==
    [][\A c \in Conns :
         (c \in DOMAIN users /\ users[c].isAdmin) =>
            \A number \in DrawInputs :
                LET room == users[c].room
                    duplicate == /\ room \in DOMAIN drawnNumbers
                                 /\ \E i \in 1..Len(drawnNumbers[room]) :
                                        drawnNumbers[room][i] = number
                IN  (DrawNumber(c, number) /\ (InvalidNumber(number) \/ duplicate)) =>
                        /\ sent' = << Msg({c}, "errorMessage",
                                          IF InvalidNumber(number) THEN "invalidNumber"
                                                                   ELSE "alreadyDrawn") >>
                        /\ drawnNumbers' = drawnNumbers]_vars

\* An admin was told that the number is already drawn while a player of the
\* room was connected.
C12_DuplicateRefusedBesidePlayer ==
    \E c \in DOMAIN users :
        /\ users[c].isAdmin
        /\ sent = << Msg({c}, "errorMessage", "alreadyDrawn") >>
        /\ PlayerIds(users, users[c].room) \cap Connected # {}
        /\ Len(drawnNumbers[users[c].room]) = 1

\* The sockets that hold a session of the room, whatever its role.
SessionIds(us, room) == { id \in DOMAIN us : us[id].room = room }

\* C13: a successful draw of an admin in a room reaches, with numberDrawn and
\* then lockCards, exactly the open connections that hold a session of that
\* room (every role, no connection of another room), and after both
\* playersUpdate and then lineCountUpdate reach every admin session of the room.
C13_DrawReachesRoomSessions ==
    [][\A c \in Conns : \A number \in DrawInputs :
         LET room == users[c].room
             all == SessionIds(users, room) \cap Connected
             admins == AdminIds(users, room) \cap Connected
         IN  (/\ c \in DOMAIN users
              /\ DrawNumber(c, number)
              /\ drawnNumbers' # drawnNumbers) =>
                 /\ RoomEmit(Connected, joined, room, "numberDrawn", number)
                      = << Msg(all, "numberDrawn", number) >>
                 /\ RoomEmit(Connected, joined, room, "lockCards", "")
                      = << Msg(all, "lockCards", "") >>
                 /\ UpdateAdminInfo(Connected, users, room)[1].to = admins
                 /\ UpdateAdminLineCounts(Connected, users, room)[1].to = admins]_vars

\* Bucket i of a lineCountUpdate payload; a bucket the payload lacks holds nobody.
BucketOf(view, i) == IF i \in DOMAIN view THEN view[i] ELSE EmptyBag
RECURSIVE BucketTotal(_, _)
BucketTotal(view, i) ==
    IF i < 0 THEN 0 ELSE BagCardinality(BucketOf(view, i)) + BucketTotal(view, i - 1)
\* The progress of a session: its line count, 0 while none is set.
ProgressOf(u) == IF "lineCount" \in DOMAIN u THEN u.lineCount ELSE 0
\* The players of the room whose progress is one of the buckets 0..14.
ShownIds(us, room) ==
    { id \in DOMAIN us :
        us[id].room = room /\ ~us[id].isAdmin /\ ProgressOf(us[id]) \in 0..14 }
BucketsRight(view, us, room) ==
    /\ BucketTotal(view, 14) = Cardinality(ShownIds(us, room))
    /\ \A i \in 0..14 :
          \A name \in { us[id].username : id \in DOMAIN us } \cup BagToSet(BucketOf(view, i)) :
              CopiesIn(name, BucketOf(view, i))
                = Cardinality({ id \in ShownIds(us, room) :
                                  ProgressOf(us[id]) = i /\ us[id].username = name })

\* C14: in every lineCountUpdate, sent to the admins of a room, the buckets
\* 0..14 together hold as many names as the room has players with a progress
\* from 0 to 14; each such player's name is in the bucket of its progress (0
\* while unset) and in no other; admins and players with another progress are
\* in no bucket.
C14_BucketsHoldPlayersByProgress ==
    \A i \in 1..Len(sent) :
        sent[i].ev = "lineCountUpdate" =>
            \E room \in RoomNames :
                /\ sent[i].to \subseteq AdminIds(users, room)
                /\ BucketsRight(sent[i].arg, users, room)

\* C15: a room that enters rooms, for the first time or again after it was
\* deleted, starts with an empty drawn list: nothing drawn in an earlier life
\* of the name is left to be reported as already drawn.
C15_RecreatedRoomStartsEmpty ==
    [][\A room \in RoomNames :
         (room \notin DOMAIN rooms /\ room \in DOMAIN rooms') =>
            /\ room \in DOMAIN drawnNumbers'
            /\ drawnNumbers'[room] = << >>]_vars

\* C16: a room enters rooms only in the step that admits an admin's login to
\* that room; no player's login makes a room entry come into existence, also
\* not when its handler resumes after the room was deleted.
C16_OnlyAdminLoginCreatesRoom ==
    [][\A room \in RoomNames :
         (room \notin DOMAIN rooms /\ room \in DOMAIN rooms') =>
            \E c \in Conns :
                AdmitStep(c) /\ ldata[c].isAdmin /\ ldata[c].room = room]_vars

\* The room a suspended handler of c works on.
HandledRoom(c) == IF lpc[c] # "idle" THEN ldata[c].room ELSE droom[c]
\* The handler of c is suspended at an await with its change half applied: the
\* row of a new room written and rooms not yet, a player admitted and nothing
\* broadcast yet, a room deleted from rooms and its row not yet, or the row
\* deleted and nothing broadcast yet.
HalfApplied(c) ==
    LET room == HandledRoom(c)
    IN  \/ lpc[c] = "createRoom" /\ room \in dbRooms /\ room \notin DOMAIN rooms
        \/ lpc[c] = "addPlayer"
        \/ dpc[c] = "deleteRoomFromDB" /\ room \in dbRooms /\ room \notin DOMAIN rooms
        \/ dpc[c] = "deleted"
\* What the program holds about a room: its sessions, count, drawn list and row.
RoomView(us, rms, drawn, rows, room) ==
    << [ d \in SessionIds(us, room) |-> us[d] ],
       IF room \in DOMAIN rms THEN << rms[room] >> ELSE << >>,
       IF room \in DOMAIN drawn THEN << drawn[room] >> ELSE << >>,
       room \in rows >>
\* This step writes what the program holds about the room, or starts a login
\* to the room, which reads its row.
RoomTouched(room) ==
    \/ RoomView(users', rooms', drawnNumbers', dbRooms', room)
         # RoomView(users, rooms, drawnNumbers, dbRooms, room)
    \/ \E d \in Conns : lpc[d] = "idle" /\ lpc'[d] = "getRoom" /\ ldata'[d].room = room

\* C17: the change and the broadcasts of one event are one unit: while a
\* handler is suspended at an await with its change to a room half applied,
\* no step of another event reads or writes what the program holds about
\* that room.
C17_NoStepInsideAnEvent ==
    [][\A c \in Conns :
         (HalfApplied(c) /\ lpc'[c] = lpc[c] /\ dpc'[c] = dpc[c]) =>
            ~RoomTouched(HandledRoom(c))]_vars

\* C18: a login that ends with loginError leaves the users and the rooms as it
\* found them: its handler has added no session, created no room and changed
\* no count.
C18_FailedLoginChangedNothing ==
    [][\A c \in Conns :
         (/\ lpc[c] # "idle" /\ lpc'[c] = "idle"
          /\ \E i \in 1..Len(sent') :
                sent'[i].ev = "loginError" /\ sent'[i].to = {c}) =>
            /\ ~lwrote[c]
            /\ users' = users /\ rooms' = rooms]_vars

\* A payload field that is missing, not a string, empty, or blank.
Unusable(v) == v \in {Undefined, NonString, "", Blank}

\* C19: a login whose username or room is missing, not a string, or empty
\* after trimming is answered with loginError to that socket alone, in the
\* segment that receives it: no query is issued, no handler stays suspended,
\* and users, rooms, drawnNumbers, the table and the socket.io rooms are as before.
\* InvalidLogins holds every payload of the runs with such a field.
C19_UnusableLoginRefusedAtOnce ==
    [][\A c \in Conns :
         (conn[c] = "open" /\ lpc[c] = "idle" /\ conn' = conn) =>
         \A data \in InvalidLogins :
         ((Unusable(data.username) \/ Unusable(data.room)) /\ Login(c, data)) =>
            /\ Len(sent') = 1
            /\ sent'[1].ev = "loginError" /\ sent'[1].to = {c}
            /\ lpc' = lpc /\ lrows' = lrows /\ dbRooms' = dbRooms
            /\ users' = users /\ rooms' = rooms
            /\ drawnNumbers' = drawnNumbers /\ joined' = joined]_vars

\* A socket without a session was refused for a blank name while a room with
\* a connected admin existed.
C19_BlankNameRefusedBesideRoom ==
    \E c \in Conns \ DOMAIN users :
        /\ sent = << Msg({c}, "loginError", "blank") >>
        /\ lpc[c] = "idle"
        /\ \E room \in DOMAIN rooms : AdminIds(users, room) \cap Connected # {}

\* C20: a storage failure is not surfaced and the state in memory decides: a
\* player's login is answered with loginError (no such room) only when rooms
\* has no entry for the room, never because a query failed or a row is missing.
C20_RoomInMemoryIsFound ==
    [][\A c \in Conns :
         (/\ lpc[c] = "getRoom" /\ lpc'[c] = "idle"
          /\ sent' = << Msg({c}, "loginError", "roomNotFound") >>) =>
            ldata[c].room \notin DOMAIN rooms]_vars

\* C21: an updateLineCount from a socket with a player's session stores the
\* reported line count in that session, whatever its value, and in no other
\* session; the caller gets no reply; lineCountUpdate goes to the connected
\* admins of the player's room and to nobody else, so to no player.
C21_PlayerLineCountStoredAndPushed ==
    [][\A c \in Conns :
         (c \in DOMAIN users /\ ~users[c].isAdmin /\ conn[c] = "open") =>
            \A lineCount \in LineInputs :
                UpdateLineCount(c, lineCount) =>
                    LET admins == AdminIds(users, users[c].room) \cap Connected
                    IN  /\ users' = [users EXCEPT ![c] =
                                        [username |-> @.username, room |-> @.room,
                                         isAdmin |-> @.isAdmin, lineCount |-> lineCount]]
                        /\ Len(sent') = IF admins = {} THEN 0 ELSE 1
                        /\ \A i \in 1..Len(sent') :
                              /\ sent'[i].ev = "lineCountUpdate"
                              /\ sent'[i].to = admins
                              /\ \A d \in sent'[i].to : users'[d].isAdmin]_vars

\* A player reported a line count outside the buckets; it is stored and the
\* room's admin got the lineCountUpdate.
C21_OutOfRangeCountPushed ==
    \E c \in DOMAIN users :
        /\ ~users[c].isAdmin
        /\ "lineCount" \in DOMAIN users[c] /\ users[c].lineCount > MaxLine
        /\ Len(sent) = 1 /\ sent[1].ev = "lineCountUpdate"
        /\ sent[1].to = AdminIds(users, users[c].room)
        /\ sent[1].to # {}

\* C22: an updateLineCount from a socket with no session, or with an admin's
\* session, does nothing: no session changes, rooms and the drawn lists are
\* as before, and nothing is emitted to anyone.
C22_LineCountOfNonPlayerIgnored ==
    [][\A c \in Conns :
         (conn[c] = "open" /\ (c \notin DOMAIN users \/ users[c].isAdmin)) =>
            \A lineCount \in LineInputs :
                UpdateLineCount(c, lineCount) =>
                    /\ sent' = << >>
                    /\ users' = users /\ rooms' = rooms
                    /\ drawnNumbers' = drawnNumbers /\ dbRooms' = dbRooms]_vars

\* Nothing was emitted in the last segment, while an admin and a player with a
\* stored line count are connected in one room and a socket without a session
\* is connected too: an updateLineCount of that admin or of that socket leads
\* here.
C22_IgnoredBesidePlayer ==
    /\ sent = << >>
    /\ \E a \in DOMAIN users :
          /\ users[a].isAdmin /\ conn[a] = "open"
          /\ \E p \in PlayerIds(users, users[a].room) :
                conn[p] = "open" /\ "lineCount" \in DOMAIN users[p]
    /\ \E c \in Conns \ DOMAIN users : conn[c] = "open"

\* C23: when a connection that holds a session closes, the session is removed
\* and the count of its room goes down by one (the room goes when nobody is
\* left) before anything is broadcast; the broadcast that ends the handler then
\* carries the room list of that moment to every open connection and, to the
\* admins left in the room, a playersUpdate and a lineCountUpdate built from
\* the sessions of the room without the closed connection.
C23_LeaveViewsOmitDeparted ==
    [][\A c \in Conns :
         /\ (c \in DOMAIN users /\ conn[c] = "open" /\ Disconnect(c)) =>
               /\ users' = Delete(users, c)
               /\ users[c].room \in DOMAIN rooms
               /\ OrZero(rooms', users[c].room) = rooms[users[c].room] - 1
         /\ (dpc[c] = "deleted" /\ DisconnectResume(c)) =>
               LET room == droom[c]
                   stay == PlayerIds(users, room) \ {c}
                   views == LeaveBroadcast(Connected, users, rooms, room)
               IN  \A i \in 1..Len(views) :
                      /\ views[i].ev = "roomsListUpdate" =>
                            views[i].to = Connected /\ views[i].arg = DOMAIN rooms
                      /\ views[i].ev = "playersUpdate" =>
                            /\ views[i].arg.players = NamesBag(users, stay)
                            /\ views[i].arg.count = Cardinality(stay)
                      /\ views[i].ev = "lineCountUpdate" =>
                            BagUnion({ views[i].arg[n] : n \in 0..MaxLine })
                               = NamesBag(users, stay)]_vars

\* C24: the disconnect handler of the last session of a room leaves the room
\* out of the room list, without a drawn list and without a deletion timer;
\* and no disconnect deletes a room in which a session is left.
C24_RoomGoesWithItsLastSession ==
    [][\A c \in Conns : (c \in DOMAIN users /\ conn[c] = "open" /\ Disconnect(c)) =>
          LET room == users[c].room
          IN  /\ SessionIds(users, room) = {c} =>
                    /\ room \notin DOMAIN rooms'
                    /\ room \notin DOMAIN drawnNumbers'
                    /\ room \notin roomTimers'
              /\ SessionIds(users, room) # {c} =>
                    /\ DOMAIN rooms' = DOMAIN rooms
                    /\ DOMAIN drawnNumbers' = DOMAIN drawnNumbers]_vars

\* C25: every playersUpdate is the view of one room R: it goes to the open
\* admins of R and lists the user name of each session of R that is not an
\* admin, once per session (a name held by two such sessions is listed twice),
\* with count the length of the list; no admin and no session of another room
\* is in it.
C25_PlayersUpdateListsRoomPlayers ==
    \A i \in 1..Len(sent) : sent[i].ev = "playersUpdate" =>
        \E room \in RoomNames :
           LET inRoom == { id \in DOMAIN users : users[id].room = room /\ ~users[id].isAdmin }
               listed == sent[i].arg.players
           IN  /\ sent[i].to = AdminIds(users, room) \cap Connected
               /\ DOMAIN listed = { users[id].username : id \in inRoom }
               /\ \A u \in DOMAIN listed :
                     listed[u] = Cardinality({ id \in inRoom : users[id].username = u })
               /\ sent[i].arg.count = BagCardinality(listed)
               /\ sent[i].arg.count = Cardinality(inRoom)

\* An admin is sent a playersUpdate naming twice the name two players share.
C25_SharedNameListedTwice ==
    \E i \in 1..Len(sent) :
        /\ sent[i].ev = "playersUpdate"
        /\ sent[i].arg.count = 2
        /\ \E u \in DOMAIN sent[i].arg.players : sent[i].arg.players[u] = 2
        /\ \E a \in sent[i].to : users[a].isAdmin

\* C26: in the game told above every step ends as told. The login of the
\* admin creates the room with count 1. The login of the player is accepted,
\* brings the count to 2 and sends the admin a playersUpdate with the player
\* alone, count 1. The first draw of the number sends numberDrawn and then
\* lockCards to the admin and the player; the second sends an errorMessage
\* to the admin alone. When the player closes, the count is 1 and the admin
\* is sent a playersUpdate with no player, count 0. When the admin closes,
\* the room is deleted.
C26_WholeGameAsTold ==
    [][/\ (lpc[Caller] # "idle" /\ LoginAdmitAdmin(Caller)) =>
             rooms' = Put(EmptyObj, GameRoom, 1)
       /\ ~(lpc[Guest] = "getRoom" /\ LoginRoomNotFound(Guest))
       /\ (lpc[Guest] = "addPlayer" /\ LoginFinishPlayer(Guest)) =>
             /\ rooms'[GameRoom] = 2
             /\ \E i \in 1..Len(sent') :
                   sent'[i] = Msg({Caller}, "playersUpdate",
                                  [players |-> SetToBag({UsernameOf[Guest]}), count |-> 1])
       /\ (events \in {2, 3} /\ Quiet /\ DrawNumber(Caller, GameNumber)) =>
             IF OrZero(drawnNumbers, GameRoom) = << >>
             THEN /\ Len(sent') >= 2
                  /\ sent'[1] = Msg({Caller, Guest}, "numberDrawn", GameNumber)
                  /\ sent'[2] = Msg({Caller, Guest}, "lockCards", "")
             ELSE /\ sent' = << Msg({Caller}, "errorMessage", "alreadyDrawn") >>
                  /\ drawnNumbers' = drawnNumbers
       /\ (events = 3 /\ Quiet /\ Disconnect(Guest)) =>
             /\ OrZero(rooms', GameRoom) = 1
             /\ \E i \in 1..Len(sent') :
                   sent'[i] = Msg({Caller}, "playersUpdate",
                                  [players |-> EmptyBag, count |-> 0])
       /\ (events = 4 /\ Quiet /\ Disconnect(Caller)) =>
             GameRoom \notin DOMAIN rooms']_vars

\* What a step that concerns one room leaves alone: the drawn list of every
\* other room and the session of every other connection in another room.
OtherRoomsKept(c, room) ==
    /\ \A r \in DOMAIN drawnNumbers \ {room} :
          r \in DOMAIN drawnNumbers' /\ drawnNumbers'[r] = drawnNumbers[r]
    /\ \A d \in DOMAIN users \ {c} :
          users[d].room # room => d \in DOMAIN users' /\ users'[d] = users[d]

\* C27: rooms are isolated. A draw, a line count, an admitted login or a
\* disconnect that concerns one room changes neither the drawn list nor a
\* session of another room, and the numberDrawn and lockCards of a draw reach
\* no open connection whose session is in another room.
C27_RoomsAreIsolated ==
    [][\A c \in Conns :
         /\ (lpc[c] \in {"getRoom", "createRoom"}
               /\ (LoginAdmitAdmin(c) \/ LoginAdmitPlayer(c))) =>
                  OtherRoomsKept(c, ldata[c].room)
         /\ (c \in DOMAIN users /\ conn[c] = "open") =>
               LET room == users[c].room
               IN  /\ Disconnect(c) => OtherRoomsKept(c, room)
                   /\ \A lineCount \in LineInputs :
                         UpdateLineCount(c, lineCount) => OtherRoomsKept(c, room)
                   /\ \A number \in DrawInputs :
                         (DrawNumber(c, number) /\ drawnNumbers' # drawnNumbers) =>
                            /\ OtherRoomsKept(c, room)
                            /\ \A d \in Connected :
                                  (d \in DOMAIN users /\ users[d].room # room) =>
                                     /\ RoomEmit({d}, joined, room, "numberDrawn", number) = << >>
                                     /\ RoomEmit({d}, joined, room, "lockCards", "") = << >>]_vars

\* C28: the reply to a requestRoomsList is one roomsListUpdate, sent to the
\* asking connection alone, that carries exactly the names of the rooms in
\* the registry at that moment (in this variant the rows of table rooms that
\* have a user); the handler changes no state.
C28_RoomsListReplyIsRegistry ==
    \A c \in Conns : conn[c] = "open" =>
        \A ok \in DbOutcomes :
            SocketEmit(c, "roomsListUpdate", GetRoomNames(ok))
              = << Msg({c}, "roomsListUpdate",
                       { r \in DOMAIN rooms : rooms[r].user_count > 0 }) >>

\* The stored count of every room is the number of sessions that name it.
CountsRight(rms, us) == \A r \in DOMAIN rms : rms[r].user_count = ActualCount(us, r)
\* No login, draw or disconnect handler is suspended at an await.
NoHandlerInFlight ==
    /\ \A c \in Conns : lpc[c] = "idle" /\ dpc[c] = "idle"
    /\ \A d \in Draws : wpc[d] = "idle"

\* C29: a write of the sweep never turns the right count of a room into a
\* wrong one, whatever login or disconnect was handled between its reading of
\* the count and that write; when a run of the sweep ends with its broadcast
\* and no handler is in the middle of its work, the count of every room is
\* the number of its sessions; and no step of the sweep adds or removes a
\* session or a drawn number.
C29_SweepLeavesCountsRight ==
    [][\A w \in Sweeps :
         /\ (sweeps[w].pc = "update" /\ SweepUpdate(w)) =>
               LET room == Head(sweeps[w].todo)
               IN  (room \in DOMAIN rooms /\ rooms[room].user_count = ActualCount(users, room))
                      => rooms'[room].user_count = ActualCount(users, room)
         /\ (sweeps[w].pc = "list" /\ SweepUpdateRoomsList(w) /\ NoHandlerInFlight) =>
               CountsRight(rooms', users')
         /\ (sweeps[w].pc # "idle" /\ sweeps'[w] # sweeps[w]) =>
               users' = users /\ drawnNumbers' = drawnNumbers]_vars

\* The runs of the sweep that are suspended at an await.
SweepsInFlight == { w \in Sweeps : sweeps[w].pc # "idle" }
\* A login, disconnect or draw handler that works on the room is suspended at
\* an await.
HandlerInFlightOn(room) ==
    \/ \E c \in Conns : lpc[c] # "idle" /\ ldata[c].room = room
    \/ \E c \in Conns : dpc[c] # "idle" /\ (droom[c] = room \/ (c \in DOMAIN users /\ users[c].room = room))
    \/ \E d \in Draws : wpc[d] # "idle" /\ wdata[d].room = room

\* C30: at most one run of the sweep is in progress at any time, and while a
\* run is between its reading of a room's count and its write of that count
\* no login, disconnect or draw handler is in the middle of its work on that
\* room.
C30_OneSweepAndAlone ==
    /\ Cardinality(SweepsInFlight) <= 1
    /\ \A w \in SweepsInFlight :
          sweeps[w].pc = "update" => ~HandlerInFlightOn(Head(sweeps[w].todo))

\* The drawn numbers of a room, none when it has no list.
DrawnOf(dn, r) == IF r \in DOMAIN dn THEN dn[r] ELSE << >>

\* C31: within one lifetime of a room its drawn numbers only grow at the end:
\* a step leaves the list of a room as it is, appends one number to it, or
\* empties it when the room is not (or no longer) in the registry; and when a
\* room has been deleted, by the time the deletion is over none of its drawn
\* numbers is left.
C31_DrawnListOnlyGrows ==
    [][\A r \in RoomNames :
         LET old == DrawnOf(drawnNumbers, r)
             new == DrawnOf(drawnNumbers', r)
         IN  /\ \/ new = old
                \/ Len(new) = Len(old) + 1 /\ SubSeq(new, 1, Len(old)) = old
                \/ new = << >> /\ r \notin DOMAIN rooms'
             /\ (r \in DOMAIN rooms /\ r \notin DOMAIN rooms') =>
                   \/ new = << >>
                   \/ \E c \in Conns : dpc'[c] = "deleteDrawn" /\ droom'[c] = r
             /\ \A c \in Conns :
                   (dpc[c] = "deleteDrawn" /\ droom[c] = r /\ dpc'[c] # "deleteDrawn") =>
                      new = << >>]_vars

\* C32: every drawn number of every room is an integer from 1 to 36: a draw
\* of anything else (below 1, above 36, not a number, a number with a
\* fraction) is refused and records nothing.
C32_DrawnAreIntegersInRange ==
    \A r \in DOMAIN drawnNumbers : \A i \in 1..Len(drawnNumbers[r]) :
        /\ drawnNumbers[r][i].type = "number"
        /\ ~drawnNumbers[r][i].half
        /\ drawnNumbers[r][i].val \in MinNumber..MaxNumber

\* A draw handler of room r stands between its INSERT into drawn_numbers and
\* its UPDATE of has_drawn.
MarkPending(r) == \E d \in Draws : wpc[d] = "markRoomAsDrawn" /\ wdata[d].room = r

\* C33: in the hasStarted variant a room with at least one drawn number has
\* has_drawn set as soon as the draw handler that stored the first number has
\* returned, has_drawn stays set while the room's row exists, and a login with
\* isAdmin=false that reads the row of such a room is refused with loginError
\* and stores no session.
C33_HasDrawnFollowsFirstDraw ==
    [][/\ \A r \in DOMAIN rooms' :
             (DrawnOf(drawnNumbers', r) # << >> /\ ~MarkPending(r)')
                => rooms'[r].has_drawn
       /\ \A r \in DOMAIN rooms \cap DOMAIN rooms' :
             rooms[r].has_drawn => rooms'[r].has_drawn
       /\ \A c \in Conns :
             (/\ lpc[c] = "getRoom" /\ lpc'[c] # "getRoom"
              /\ ~ldata[c].isAdmin
              /\ ldata[c].room \in DOMAIN rooms
              /\ rooms[ldata[c].room].has_drawn
              /\ DrawnOf(drawnNumbers, ldata[c].room) # << >>)
                => lpc'[c] = "idle" /\ users' = users]_vars

\* C34: a valid login with isAdmin=true is never refused and ends with
\* loginSuccess to its socket and the session stored, whether or not a number
\* has been drawn in the room; when the room is in the registry at the time the
\* handler admits, no drawn list changes.
C34_AdminLoginAlwaysAccepted ==
    [][\A c \in Conns :
         (lpc[c] # "idle" /\ ldata[c].isAdmin /\ lpc'[c] # lpc[c]) =>
            /\ \A i \in 1..Len(sent') : sent'[i].ev # "loginError"
            /\ lpc'[c] = "idle" =>
                  /\ \E i \in 1..Len(sent') :
                        sent'[i] = Msg({c}, "loginSuccess",
                                       [room |-> ldata[c].room, isAdmin |-> TRUE])
                  /\ c \in DOMAIN users' /\ users'[c] = Session(ldata[c])
            /\ ldata[c].room \in DOMAIN rooms => drawnNumbers' = drawnNumbers]_vars

\* C34 case: an admin has just been accepted in a room that another session
\* holds and in which a number has been drawn.
C34_AdminAcceptedAfterDraw ==
    \E c \in DOMAIN users, i \in 1..Len(sent) :
        /\ sent[i].ev = "loginSuccess" /\ sent[i].to = {c} /\ sent[i].arg.isAdmin
        /\ users[c].isAdmin
        /\ users[c].room \in DOMAIN drawnNumbers
        /\ drawnNumbers[users[c].room] # << >>
        /\ \E o \in DOMAIN users : o # c /\ users[o].room = users[c].room

\* C35: the step that admits a login to room R leaves no timer pending for R
\* (src/server.js never arms one: roomTimers is read and cleared at lines
\* 134-137 and 204-207 and assigned nowhere), and a room leaves the registry
\* only in the disconnect step of one of its own sessions, never by a timer.
C35_NoTimerAfterLogin ==
    [][/\ \A c \in Conns : AdmitStep(c) => ldata[c].room \notin roomTimers'
       /\ \A r \in DOMAIN rooms \ DOMAIN rooms' :
             \E c \in DOMAIN users \ DOMAIN users' :
                 users[c].room = r /\ conn[c] = "open" /\ conn'[c] = "closed"]_vars

\* C35 case: room r was emptied and deleted by a leave whose handler has not
\* returned yet, and a later login has brought r back with a session in it.
C35_RoomRejoinedAfterEmptying ==
    \E c \in DOMAIN users, o \in Conns :
        /\ dpc[o] # "idle" /\ droom[o] = users[c].room
        /\ users[c].room \in DOMAIN rooms
        /\ conn[c] = "open"

\* C36: no room's stored count (user_count of table rooms in the sqlite3
\* server) is negative in any reachable state, the states between the awaited
\* statements of disconnects, logins and sweeps included.
C36_CountNeverNegative == \A r \in DOMAIN rooms : rooms[r] >= 0

\* C37: once the login and disconnect handlers of a closed connection have
\* returned, the connection has no session, and so no room counts it.
C37_NoSessionOfClosedConnection ==
    \A c \in Conns :
        (conn[c] = "closed" /\ lpc[c] = "idle" /\ dpc[c] = "idle") =>
            c \notin DOMAIN users

\* C38: in src/server.js the room of every session is in rooms with a count of
\* at least 1 and has a drawn list, in every reachable state, and no drawNumber
\* has read a missing drawn list.
C38_SessionRoomIsRegistered ==
    /\ \A c \in DOMAIN users :
          /\ users[c].room \in DOMAIN rooms
          /\ rooms[users[c].room] >= 1
          /\ users[c].room \in DOMAIN drawnNumbers
    /\ ~crashed

\* C38 case: an admin's socket has logged in to both rooms, so its session is
\* in the second, and a sweep has set the count of the first to 0.
C38_SecondLoginThenSweep ==
    \E c \in DOMAIN users :
        /\ users[c].isAdmin
        /\ Cardinality(joined[c]) = 2
        /\ \E r \in DOMAIN rooms : rooms[r] = 0

\* Every socket id has connected and closed: no client event can arrive.
AllClosed == \A c \in Conns : conn[c] = "closed"

\* C39: once every connection has closed, fair processing of the suspended
\* handlers and of the sweep leads to a state with no session and no room.
C39_AllClosedLeadsToEmpty == AllClosed ~> (users = EmptyObj /\ rooms = EmptyObj)

\* C40: the close of a connection that has no session changes no session, no
\* count, no drawn list and no row of the room table, emits nothing to anyone
\* and leaves no handler suspended.
C40_SessionlessCloseChangesNothing ==
    [][\A c \in Conns :
         (conn[c] = "open" /\ conn'[c] = "closed" /\ c \notin DOMAIN users) =>
            /\ users' = users /\ rooms' = rooms /\ drawnNumbers' = drawnNumbers
            /\ dbRooms' = dbRooms /\ roomTimers' = roomTimers
            /\ sent' = << >>
            /\ dpc'[c] = "idle"]_vars

\* C40 case: one login and one close have happened; the login made an admin's
\* session on a socket that is still connected, so the socket that closed had
\* no session, and nothing was emitted by its close.
C40_StrangerClosedBesideAdmin ==
    /\ events = 2
    /\ sent = << >>
    /\ \A c \in Conns : lpc[c] = "idle" /\ dpc[c] = "idle"
    /\ \E c \in Conns : conn[c] = "closed" /\ c \notin DOMAIN users
    /\ \E a \in DOMAIN users : users[a].isAdmin /\ conn[a] = "open"

====
